---------------------------- MODULE Spec2Model ----------------------------
(***************************************************************************)
(* DepRadar: the vulnerability correlation core.                           *)
(*                                                                         *)
(*   services/cve.ts    version comparator, range matcher, advisory        *)
(*                      catalog lookup                                     *)
(*   services/audit.ts  ecosystem audit adapters and the multi-project     *)
(*                      scan                                               *)
(*                                                                         *)
(* Strings are sequences of one-character strings, so that the regular     *)
(* expressions, split, trim and parseInt of the source are modelled by     *)
(* what they do to the characters.  null/undefined is the string Null.     *)
(***************************************************************************)
EXTENDS Integers, Sequences, FiniteSets, TLC

\* ------------------------------------------------------------------ bounds

\* Longest generated version: number of dot-separated components.
MaxComponents == 2

\* ------------------------------------------------------------------- state

VARIABLES
  va, vb,      \* compareVersions: the two version strings of a call
  cmpCall,     \* compareVersions: parsed components and the value returned
  rv, rr,      \* isInRange: the version and the range expression of a call
  rangeCall,   \* isInRange: the value returned
  catalog,     \* the module-level advisory table CVE_DATABASE
  fs,          \* checkProjectCves: the project's package.json and node_modules
  cveCall,     \* checkProjectCves: the installed versions read, the value returned
  session,     \* the catalog's callers: the number of calls made, the
               \* checkProjectCves call before the latest, and the latest values
               \* of getCveDatabaseStats and checkAllProjectCves
  projects,    \* auditAllProjects: the list of {name, language} it is given
  idx,         \* auditAllProjects: the project that map audits next
  results,     \* auditAllProjects: the results that map has produced
  spawned,     \* the commands the latest auditProject call handed to execSync
  clean,       \* whether the tool of the latest call ran and exited with 0 on
               \* well-formed output
  output,      \* auditAllProjects: the list returned
  pc,          \* auditAllProjects: "map", "done", or "aborted" by an exception
  thrown,      \* an exception escaped auditAllProjects
  target,      \* auditProject: the project of a call, with the directory, the
               \* installed binaries and the behaviour of the tool it meets
  auditCall,   \* auditProject: the value returned and the commands run
  call,        \* the auditProject call in progress inside map: the commands it
               \* has yet to hand to execSync, the child it waits for, and the
               \* value it will return
  running      \* the subprocesses that have been spawned and have not exited

cmpVars   == <<va, vb, cmpCall>>
rangeVars == <<rv, rr, rangeCall>>
cveVars   == <<catalog, fs, cveCall, session>>
scanVars  == <<projects, idx, results, spawned, clean, output, pc, thrown>>
auditVars == <<target, auditCall>>
seqVars   == <<call, running>>
vars      == <<cmpVars, rangeVars, cveVars, scanVars, auditVars, seqVars>>

\* null / undefined
Null == "null"

\* ------------------------------------------------------- character helpers

Digits == {"0", "1", "2", "3", "4", "5", "6", "7", "8", "9"}

DigitVal(c) ==
  CASE c = "0" -> 0 [] c = "1" -> 1 [] c = "2" -> 2 [] c = "3" -> 3
    [] c = "4" -> 4 [] c = "5" -> 5 [] c = "6" -> 6 [] c = "7" -> 7
    [] c = "8" -> 8 [] c = "9" -> 9

IsDigit(c) == c \in Digits

\* \s of a JavaScript regular expression, and the white space parseInt and
\* trim skip (the characters of it that the inputs here use).
IsSpace(c) == c \in {" ", "\t", "\n"}

Max(x, y) == IF x >= y THEN x ELSE y

\* String.prototype.split(".") : always at least one piece.
RECURSIVE SplitOn(_, _)
SplitOn(s, sep) ==
  IF \A i \in 1..Len(s) : s[i] # sep
    THEN <<s>>
    ELSE LET k == CHOOSE i \in 1..Len(s) :
                     s[i] = sep /\ \A j \in 1..(i - 1) : s[j] # sep
         IN  <<SubSeq(s, 1, k - 1)>> \o SplitOn(SubSeq(s, k + 1, Len(s)), sep)

\* v.replace(/^[^0-9]*/, "")
RECURSIVE StripLeadingNonDigits(_)
StripLeadingNonDigits(s) ==
  IF s = <<>> \/ IsDigit(Head(s)) THEN s ELSE StripLeadingNonDigits(Tail(s))

\* The digits a string starts with.
RECURSIVE LeadingDigits(_)
LeadingDigits(s) ==
  IF s = <<>> \/ ~IsDigit(Head(s)) THEN <<>>
  ELSE <<Head(s)>> \o LeadingDigits(Tail(s))

RECURSIVE DropLeadingSpace(_)
DropLeadingSpace(s) ==
  IF s = <<>> \/ ~IsSpace(Head(s)) THEN s ELSE DropLeadingSpace(Tail(s))

RECURSIVE DecimalValue(_)
DecimalValue(ds) ==
  IF ds = <<>> THEN 0
  ELSE 10 * DecimalValue(SubSeq(ds, 1, Len(ds) - 1)) + DigitVal(ds[Len(ds)])

\* A parse that rejects trailing characters, as Number(n) does.
parseInt_Strict(n) ==
  LET t      == DropLeadingSpace(n)
      signed == t # <<>> /\ Head(t) \in {"-", "+"}
      body   == IF signed THEN Tail(t) ELSE t
      neg    == signed /\ Head(t) = "-"
  IN  IF body = <<>> \/ \E i \in 1..Len(body) : ~IsDigit(body[i])
        THEN [nan |-> TRUE, val |-> 0]
      ELSE [nan |-> FALSE,
            val |-> IF neg THEN 0 - DecimalValue(body) ELSE DecimalValue(body)]

\* parseInt(n, 10): leading white space, one optional sign, then the longest
\* run of decimal digits; NaN when that run is empty.
parseInt(n) ==
  LET t      == DropLeadingSpace(n)
      signed == t # <<>> /\ Head(t) \in {"-", "+"}
      body   == IF signed THEN Tail(t) ELSE t
      ds     == LeadingDigits(body)
      neg    == signed /\ Head(t) = "-"
  IN  IF ds = <<>> THEN [nan |-> TRUE, val |-> 0]
      ELSE [nan |-> FALSE,
            val |-> IF neg THEN 0 - DecimalValue(ds) ELSE DecimalValue(ds)]

\* x || 0 for a number x: NaN and 0 are falsy.
OrZero(x) == IF x.nan THEN 0 ELSE x.val

\* ------------------------------------------------------ version comparator

\* A parse that keeps the leading prefix.
parseVersion_NoStrip(v) ==
  LET parts == SplitOn(v, ".")
  IN  [i \in 1..Len(parts) |-> OrZero(parseInt(parts[i]))]

parseVersion(v) ==
  LET parts == SplitOn(StripLeadingNonDigits(v), ".")
  IN  [i \in 1..Len(parts) |-> OrZero(parseInt(parts[i]))]

\* pa[i] || 0 : a missing component is undefined, hence 0.
At(p, i) == IF i <= Len(p) THEN p[i] ELSE 0

Min(x, y) == IF x <= y THEN x ELSE y

\* A loop that stops at the shorter of the two versions.
RECURSIVE CompareFrom_MinLen(_, _, _)
CompareFrom_MinLen(pa, pb, i) ==
  IF i > Min(Len(pa), Len(pb)) THEN 0
  ELSE IF At(pa, i) # At(pb, i) THEN At(pa, i) - At(pb, i)
  ELSE CompareFrom_MinLen(pa, pb, i + 1)

RECURSIVE CompareFrom(_, _, _)
CompareFrom(pa, pb, i) ==
  IF i > Max(Len(pa), Len(pb)) THEN 0
  ELSE IF At(pa, i) # At(pb, i) THEN At(pa, i) - At(pb, i)
  ELSE CompareFrom(pa, pb, i + 1)

compareVersions(a, b) == CompareFrom(parseVersion(a), parseVersion(b), 1)


\* ------------------------------------------------------------ range matcher

OpChars == {">", "<", "=", "!"}

\* range.split(/\s+/): the pieces between maximal runs of white space; a
\* leading or trailing run leaves an empty piece.
RECURSIVE SplitWs(_)
SplitWs(s) ==
  IF \A i \in 1..Len(s) : ~IsSpace(s[i])
    THEN <<s>>
    ELSE LET k == CHOOSE i \in 1..Len(s) :
                     IsSpace(s[i]) /\ \A j \in 1..(i - 1) : ~IsSpace(s[j])
         IN  <<SubSeq(s, 1, k - 1)>>
               \o SplitWs(DropLeadingSpace(SubSeq(s, k, Len(s))))

RECURSIVE LeadingOpChars(_)
LeadingOpChars(s) ==
  IF s = <<>> \/ Head(s) \notin OpChars THEN <<>>
  ELSE <<Head(s)>> \o LeadingOpChars(Tail(s))

\* part.match(/^([><=!]+)(.+)$/): the first group is greedy, and gives back
\* one character when it has taken the whole part, because the second group
\* needs at least one.
MatchConstraint(part) ==
  LET run == LeadingOpChars(part)
      k   == Len(run)
  IN  IF k = 0 THEN [matched |-> FALSE, op |-> <<>>, target |-> <<>>]
      ELSE IF k < Len(part)
        THEN [matched |-> TRUE, op |-> run,
              target |-> SubSeq(part, k + 1, Len(part))]
      ELSE IF k >= 2
        THEN [matched |-> TRUE, op |-> SubSeq(part, 1, k - 1),
              target |-> <<part[k]>>]
      ELSE [matched |-> FALSE, op |-> <<>>, target |-> <<>>]

\* The switch on op: TRUE when the constraint makes isInRange return false.
Rejects(op, cmp) ==
  CASE op = <<">", "=">> -> cmp < 0
    [] op = <<">">>      -> cmp <= 0
    [] op = <<"<", "=">> -> cmp > 0
    [] op = <<"<">>      -> cmp >= 0
    [] op = <<"=">>      -> cmp # 0
    [] op = <<"=", "=">> -> cmp # 0
    [] OTHER             -> FALSE

RECURSIVE RangeFrom(_, _, _)
RangeFrom(version, parts, i) ==
  IF i > Len(parts) THEN TRUE
  ELSE LET m == MatchConstraint(parts[i])
       IN  IF ~m.matched THEN RangeFrom(version, parts, i + 1)
           ELSE IF Rejects(m.op, compareVersions(version, m.target)) THEN FALSE
           ELSE RangeFrom(version, parts, i + 1)

isInRange(version, range) == RangeFrom(version, SplitWs(range), 1)


\* --------------------------------------------------------- advisory catalog

CVE_DATABASE ==
  <<
    [ id |-> "CVE-2026-22775", package |-> "devalue", severity |-> "high",
      title |-> "DoS via memory/CPU exhaustion in devalue.parse",
      affectedVersions |-> <<">", "=", "5", ".", "1", ".", "0", " ", "<", "5", ".", "6", ".", "2">>,
      patchedVersion |-> "5.6.2",
      url |-> "https://github.com/sveltejs/devalue/security/advisories/GHSA-g2pg-6438-jwpf",
      date |-> <<"2", "0", "2", "6", "-", "0", "1", "-", "1", "5">> ],
    [ id |-> "CVE-2026-22774", package |-> "devalue", severity |-> "high",
      title |-> "DoS via memory exhaustion in devalue.parse",
      affectedVersions |-> <<">", "=", "5", ".", "3", ".", "0", " ", "<", "5", ".", "6", ".", "2">>,
      patchedVersion |-> "5.6.2",
      url |-> "https://github.com/sveltejs/devalue/security/advisories/GHSA-vw5p-8cq8-m7mv",
      date |-> <<"2", "0", "2", "6", "-", "0", "1", "-", "1", "5">> ],
    [ id |-> "CVE-2026-22803", package |-> "@sveltejs/kit", severity |-> "high",
      title |-> "Memory amplification DoS in Remote Functions binary form deserializer",
      affectedVersions |-> <<">", "=", "2", ".", "4", "9", ".", "0", " ", "<", "2", ".", "4", "9", ".", "5">>,
      patchedVersion |-> "2.49.5",
      url |-> "https://github.com/sveltejs/kit/security/advisories/GHSA-j2f3-wq62-6q46",
      date |-> <<"2", "0", "2", "6", "-", "0", "1", "-", "1", "5">> ],
    [ id |-> "CVE-2025-67647", package |-> "@sveltejs/kit", severity |-> "critical",
      title |-> "DoS and SSRF via prerendering",
      affectedVersions |-> <<">", "=", "2", ".", "1", "9", ".", "0", " ", "<", "2", ".", "4", "9", ".", "5">>,
      patchedVersion |-> "2.49.5",
      url |-> "https://github.com/sveltejs/kit/security/advisories/GHSA-j62c-4x62-9r35",
      date |-> <<"2", "0", "2", "6", "-", "0", "1", "-", "1", "5">> ],
    [ id |-> "CVE-2025-67647", package |-> "@sveltejs/adapter-node", severity |-> "high",
      title |-> "DoS and SSRF when using prerendering without ORIGIN env var",
      affectedVersions |-> <<"<", "5", ".", "5", ".", "1">>,
      patchedVersion |-> "5.5.1",
      url |-> "https://github.com/sveltejs/kit/security/advisories/GHSA-j62c-4x62-9r35",
      date |-> <<"2", "0", "2", "6", "-", "0", "1", "-", "1", "5">> ],
    [ id |-> "CVE-2025-15265", package |-> "svelte", severity |-> "moderate",
      title |-> "XSS via hydratable with unsanitized user-controlled keys",
      affectedVersions |-> <<">", "=", "5", ".", "4", "6", ".", "0", " ", "<", "5", ".", "4", "6", ".", "4">>,
      patchedVersion |-> "5.46.4",
      url |-> "https://github.com/sveltejs/svelte/security/advisories/GHSA-6738-r8g5-qwp3",
      date |-> <<"2", "0", "2", "6", "-", "0", "1", "-", "1", "5">> ],
    [ id |-> "CVE-2025-29927", package |-> "next", severity |-> "critical",
      title |-> "Authorization bypass via x-middleware-subrequest header",
      affectedVersions |-> <<">", "=", "1", "2", ".", "0", ".", "0", " ", "<", "1", "4", ".", "2", ".", "2", "5">>,
      patchedVersion |-> "14.2.25",
      url |-> "https://github.com/vercel/next.js/security/advisories/GHSA-f82v-jh2m-4xrg",
      date |-> <<"2", "0", "2", "5", "-", "0", "3", "-", "2", "1">> ],
    [ id |-> "CVE-2024-56332", package |-> "next", severity |-> "high",
      title |-> "DoS via image optimization",
      affectedVersions |-> <<">", "=", "1", "0", ".", "0", ".", "0", " ", "<", "1", "4", ".", "2", ".", "2", "1">>,
      patchedVersion |-> "14.2.21",
      url |-> "https://github.com/vercel/next.js/security/advisories/GHSA-gp8f-8m3g-qvj9",
      date |-> <<"2", "0", "2", "4", "-", "1", "2", "-", "1", "7">> ],
    [ id |-> "CVE-2024-29041", package |-> "express", severity |-> "moderate",
      title |-> "Open redirect in express.response.redirect",
      affectedVersions |-> <<"<", "4", ".", "1", "9", ".", "2">>,
      patchedVersion |-> "4.19.2",
      url |-> "https://github.com/expressjs/express/security/advisories/GHSA-rv95-896h-c2vc",
      date |-> <<"2", "0", "2", "4", "-", "0", "3", "-", "2", "5">> ],
    [ id |-> "CVE-2025-30208", package |-> "vite", severity |-> "high",
      title |-> "Arbitrary file access via special URL characters",
      affectedVersions |-> <<">", "=", "6", ".", "0", ".", "0", " ", "<", "6", ".", "0", ".", "1", "2">>,
      patchedVersion |-> "6.0.12",
      url |-> "https://github.com/vitejs/vite/security/advisories/GHSA-x574-m823-4c42",
      date |-> <<"2", "0", "2", "5", "-", "0", "3", "-", "2", "4">> ],
    [ id |-> "CVE-2025-27152", package |-> "axios", severity |-> "high",
      title |-> "SSRF and credential leakage via absolute URL override",
      affectedVersions |-> <<">", "=", "1", ".", "0", ".", "0", " ", "<", "1", ".", "8", ".", "2">>,
      patchedVersion |-> "1.8.2",
      url |-> "https://github.com/axios/axios/security/advisories/GHSA-jr45-m27q-7655",
      date |-> <<"2", "0", "2", "5", "-", "0", "3", "-", "0", "7">> ]
  >>

\* A JavaScript value read from a manifest: a string, undefined, or a value
\* that is neither (a number other than 0).
StrVal(str) == [kind |-> "string", s |-> str]
Undefined   == [kind |-> "undefined", s |-> <<>>]
NumVal      == [kind |-> "number", s |-> <<>>]

\* !version
Falsy(v) == v.kind = "undefined" \/ (v.kind = "string" /\ v.s = <<>>)

\* String(specifier).replace(/^[\^~>=<]+/, "")
RECURSIVE StripRangeOperators(_)
StripRangeOperators(spec) ==
  IF spec = <<>> \/ Head(spec) \notin {"^", "~", ">", "=", "<"} THEN spec
  ELSE StripRangeOperators(Tail(spec))

\* { ...pkg.dependencies, ...pkg.devDependencies }
AllDeps(f) ==
  [n \in (DOMAIN f.dependencies) \cup (DOMAIN f.devDependencies) |->
     IF n \in DOMAIN f.devDependencies THEN f.devDependencies[n]
     ELSE f.dependencies[n]]

\* The map from package name to version; empty when package.json is absent
\* or does not parse.
getInstalledVersions(f) ==
  IF f.pkgJson # "ok" THEN <<>>
  ELSE [n \in DOMAIN AllDeps(f) |->
          IF f.nm[n].file = "ok" THEN f.nm[n].version
          ELSE StrVal(StripRangeOperators(AllDeps(f)[n]))]

\* const version = installed[advisory.package]
Lookup(installed, name) ==
  IF name \in DOMAIN installed THEN installed[name] ELSE Undefined

\* A loop over the catalog that reports every advisory id once.
RECURSIVE CheckFrom_DedupById(_, _, _, _)
CheckFrom_DedupById(installed, db, i, affected) ==
  IF i > Len(db) THEN [thrown |-> FALSE, affected |-> affected]
  ELSE LET advisory == db[i]
           version  == Lookup(installed, advisory.package)
           seen     == \E k \in 1..Len(affected) :
                         affected[k].advisory.id = advisory.id
       IN  IF Falsy(version)
             THEN CheckFrom_DedupById(installed, db, i + 1, affected)
           ELSE IF version.kind # "string"
             THEN [thrown |-> TRUE, affected |-> affected]
           ELSE IF isInRange(version.s, advisory.affectedVersions) /\ ~seen
             THEN CheckFrom_DedupById(installed, db, i + 1,
                    Append(affected, [advisory |-> advisory,
                                      installedVersion |-> version.s,
                                      isAffected |-> TRUE]))
           ELSE CheckFrom_DedupById(installed, db, i + 1, affected)

\* The loop over the catalog: the matches pushed so far, and whether
\* isInRange threw on a version that has no replace method.
RECURSIVE CheckFrom(_, _, _, _)
CheckFrom(installed, db, i, affected) ==
  IF i > Len(db) THEN [thrown |-> FALSE, affected |-> affected]
  ELSE LET advisory == db[i]
           version  == Lookup(installed, advisory.package)
       IN  IF Falsy(version) THEN CheckFrom(installed, db, i + 1, affected)
           ELSE IF version.kind # "string"
             THEN [thrown |-> TRUE, affected |-> affected]
           ELSE IF isInRange(version.s, advisory.affectedVersions)
             THEN CheckFrom(installed, db, i + 1,
                    Append(affected, [advisory |-> advisory,
                                      installedVersion |-> version.s,
                                      isAffected |-> TRUE]))
           ELSE CheckFrom(installed, db, i + 1, affected)

checkProjectCves(db, f, projectName) ==
  LET installed == getInstalledVersions(f)
      loop      == CheckFrom(installed, db, 1, <<>>)
  IN  [thrown |-> loop.thrown,
       project |-> projectName,
       affected |-> loop.affected,
       scannedPackages |-> Cardinality(DOMAIN installed)]

\* .filter(r => r.affected.length > 0)
HasMatches(r) == Len(r.affected) > 0

\* projects.map(p => checkProjectCves(p.path, p.name)): the results so far,
\* and whether a call threw.
RECURSIVE CheckAllFrom(_, _, _, _)
CheckAllFrom(db, ps, i, acc) ==
  IF i > Len(ps) THEN [thrown |-> FALSE, results |-> acc]
  ELSE LET r == checkProjectCves(db, ps[i].files, ps[i].name)
       IN  IF r.thrown THEN [thrown |-> TRUE, results |-> <<>>]
           ELSE CheckAllFrom(db, ps, i + 1,
                  Append(acc, [project |-> r.project, affected |-> r.affected,
                               scannedPackages |-> r.scannedPackages]))

checkAllProjectCves(db, ps) ==
  LET mapped == CheckAllFrom(db, ps, 1, <<>>)
  IN  [thrown |-> mapped.thrown,
       results |-> SelectSeq(mapped.results, HasMatches)]

\* The UTF-16 code unit of a character of a date.
CodeUnit(c) == IF c = "-" THEN 45 ELSE 48 + DigitVal(c)

\* The default comparison of Array.prototype.sort: a string comes before
\* another when it is a proper prefix of it or has the smaller code unit at
\* the first position where they differ.
RECURSIVE StringLess(_, _)
StringLess(x, y) ==
  IF y = <<>> THEN FALSE
  ELSE IF x = <<>> THEN TRUE
  ELSE IF Head(x) # Head(y) THEN CodeUnit(Head(x)) < CodeUnit(Head(y))
  ELSE StringLess(Tail(x), Tail(y))

\* One element put at its place in a sorted array; the sort is stable.
RECURSIVE InsertSorted(_, _)
InsertSorted(sorted, x) ==
  IF sorted = <<>> THEN <<x>>
  ELSE IF StringLess(x, Head(sorted)) THEN <<x>> \o sorted
  ELSE <<Head(sorted)>> \o InsertSorted(Tail(sorted), x)

\* array.sort()
RECURSIVE SortStrings(_)
SortStrings(a) ==
  IF a = <<>> THEN <<>>
  ELSE InsertSorted(SortStrings(SubSeq(a, 1, Len(a) - 1)), a[Len(a)])

\* [...new Set(array)]: the first occurrence of every value, in order.
RECURSIVE Distinct(_)
Distinct(a) ==
  IF a = <<>> THEN <<>>
  ELSE LET rest == Distinct(SubSeq(a, 1, Len(a) - 1))
       IN  IF \E i \in 1..Len(rest) : rest[i] = a[Len(a)] THEN rest
           ELSE Append(rest, a[Len(a)])

\* The catalog after a statistics call that orders the table itself by date.
RECURSIVE SortByDate(_)
SortByDate(db) ==
  IF db = <<>> THEN <<>>
  ELSE LET rest == SortByDate(SubSeq(db, 1, Len(db) - 1))
           x    == db[Len(db)]
           k    == Cardinality({i \in 1..Len(rest) :
                                  ~StringLess(x.date, rest[i].date)})
       IN  SubSeq(rest, 1, k) \o <<x>> \o SubSeq(rest, k + 1, Len(rest))

getCveDatabaseStats_SortInPlace(db) ==
  LET sorted == SortByDate(db)
  IN  [db |-> sorted,
       total |-> Len(sorted),
       packages |-> Distinct([i \in 1..Len(sorted) |-> sorted[i].package]),
       lastUpdate |-> IF sorted = <<>> THEN "unknown"
                      ELSE sorted[Len(sorted)].date]

\* A statistics call that reads the date of the last record of the table.
getCveDatabaseStats_LastRecord(db) ==
  [db |-> db,
   total |-> Len(db),
   packages |-> Distinct([i \in 1..Len(db) |-> db[i].package]),
   lastUpdate |-> IF db = <<>> THEN "unknown" ELSE db[Len(db)].date]

\* getCveDatabaseStats(): the value returned, and under db the table as the
\* call leaves it; map and the spread build new arrays, and sort orders the
\* new array of dates.
getCveDatabaseStats(db) ==
  LET packages == Distinct([i \in 1..Len(db) |-> db[i].package])
      dates    == SortStrings([i \in 1..Len(db) |-> db[i].date])
  IN  [db |-> db,
       total |-> Len(db),
       packages |-> packages,
       lastUpdate |-> IF dates = <<>> \/ dates[Len(dates)] = <<>>
                        THEN "unknown" ELSE dates[Len(dates)]]

\* ------------------------------------------------------------- subprocesses

(***************************************************************************)
(* What a subprocess wrote is a record [kind, doc]: kind "empty" is the    *)
(* empty string, "blank" is white space only, "garbage" is text that is    *)
(* not JSON (a diagnostic), "jsonNull" is the JSON document null and       *)
(* "json" is a JSON object, whose content is doc.  JSON.parse throws on    *)
(* "garbage" and returns doc on "json".                                    *)
(***************************************************************************)

\* String.prototype.trim
Trim(text) == IF text.kind = "blank" THEN [text EXCEPT !.kind = "empty"] ELSE text

\* A string is truthy unless it is empty.
Truthy(text) == text.kind # "empty"

\* A call of cmd that lets the exception of execSync escape.
cmd_NoCatch(exec) ==
  IF exec.exit = "zero"
    THEN [thrown |-> FALSE, isNull |-> FALSE, text |-> Trim(exec.stdout)]
  ELSE [thrown |-> TRUE, isNull |-> TRUE, text |-> exec.stdout]

\* A call of cmd that takes a non-zero exit or a timeout as a failure.
cmd_NullOnFailure(exec) ==
  IF exec.exit = "zero"
    THEN [thrown |-> FALSE, isNull |-> FALSE, text |-> Trim(exec.stdout)]
  ELSE [thrown |-> FALSE, isNull |-> TRUE, text |-> exec.stdout]

\* cmd(command, cwd, timeout): execSync returns stdout when the subprocess
\* exits with 0, and throws (non-zero exit, timeout, spawn failure) an error
\* that carries what was captured.
cmd(exec) ==
  IF exec.exit = "zero"
    THEN [thrown |-> FALSE, isNull |-> FALSE, text |-> Trim(exec.stdout)]
  ELSE IF Truthy(exec.stdout)
    THEN [thrown |-> FALSE, isNull |-> FALSE, text |-> Trim(exec.stdout)]
  ELSE IF Truthy(exec.stderr)
    THEN [thrown |-> FALSE, isNull |-> FALSE, text |-> Trim(exec.stderr)]
  ELSE [thrown |-> FALSE, isNull |-> TRUE, text |-> exec.stdout]

\* !raw
NoRaw(raw) == raw.isNull \/ raw.text.kind = "empty"

\* cmdExists(name): `which name` exits with 0.
cmdExists(env, name) == name \in env.bins

Which(name) == "which " \o name

\* ------------------------------------------------------------ audit results

emptyResult(project, language, auditCommand, error) ==
  [project |-> project, language |-> language, vulnerabilities |-> <<>>,
   totalVulnerabilities |-> 0, critical |-> 0, high |-> 0, moderate |-> 0,
   low |-> 0, auditCommand |-> auditCommand, error |-> error]

\* vulns.filter(v => v.severity === sev).length
CountSeverity(vulns, sev) ==
  Cardinality({i \in 1..Len(vulns) : vulns[i].severity = sev})

\* What an adapter hands back: its result and the commands it ran, or the
\* exception that escaped it.
Returned(result, log) == [thrown |-> FALSE, result |-> result, log |-> log]

Escaped(log) ==
  [thrown |-> TRUE, result |-> emptyResult(Null, Null, Null, Null), log |-> log]

\* ------------------------------------------------------------ node adapter

DetectPm(lock) ==
  IF "pnpm-lock.yaml" \in lock THEN "pnpm"
  ELSE IF "yarn.lock" \in lock THEN "yarn"
  ELSE IF "bun.lockb" \in lock THEN "bun"
  ELSE "npm"

NodeAuditCmd(pm) ==
  IF pm = "pnpm" THEN "pnpm audit --json"
  ELSE IF pm = "yarn" THEN "yarn audit --json"
  ELSE "npm audit --json"

\* via.find(v => typeof v === "object" && v.title): its index, or 0.
FindAdvisory(via) ==
  IF \E i \in 1..Len(via) : via[i].isObject /\ via[i].title # ""
    THEN CHOOSE i \in 1..Len(via) :
           /\ via[i].isObject /\ via[i].title # ""
           /\ \A j \in 1..(i - 1) : ~(via[j].isObject /\ via[j].title # "")
    ELSE 0

\* The entry pushed for one [pkg, info] of data.vulnerabilities.  An absent
\* string field is "".
NodeVulnerability(pkg, info) ==
  LET via == IF info.via.isArray THEN info.via.items ELSE <<>>
      a   == FindAdvisory(via)
  IN  [package |-> pkg,
       severity |-> IF info.severity # "" THEN info.severity ELSE "moderate",
       title |-> IF a # 0 THEN via[a].title ELSE "Vulnerability in " \o pkg,
       url |-> IF a # 0 THEN via[a].url ELSE "",
       fixVersion |->
         IF info.fixAvailable.kind = "object"
           THEN (IF info.fixAvailable.version # ""
                   THEN info.fixAvailable.version ELSE Null)
         ELSE IF info.fixAvailable.kind = "true" THEN "available"
         ELSE Null,
       currentVersion |-> IF info.range # "" THEN info.range ELSE Null]

\* meta.key || fallback : a missing count and a count of 0 are falsy.
MetaOr(meta, key, fallback) ==
  IF key \in DOMAIN meta /\ meta[key] # 0 THEN meta[key] ELSE fallback

NodeCounts(meta, vulns) ==
  [total |-> MetaOr(meta, "total", Len(vulns)),
   critical |-> MetaOr(meta, "critical", CountSeverity(vulns, "critical")),
   high |-> MetaOr(meta, "high", CountSeverity(vulns, "high")),
   moderate |-> MetaOr(meta, "moderate", CountSeverity(vulns, "moderate")),
   low |-> MetaOr(meta, "low", CountSeverity(vulns, "low"))]

\* The body of the try block for npm and pnpm: threw when JSON.parse or a
\* property access on null threw.
NodeParse(text, projectName, auditCmd) ==
  IF text.kind # "json"
    THEN [threw |-> TRUE, result |-> emptyResult(projectName, "node", auditCmd, Null)]
  ELSE
    LET data    == text.doc
        entries == IF data.vulnerabilities.present
                     THEN data.vulnerabilities.entries ELSE <<>>
    IN  IF \E i \in 1..Len(entries) : entries[i].info.isNull
          THEN [threw |-> TRUE,
                result |-> emptyResult(projectName, "node", auditCmd, Null)]
        ELSE
          LET vulns == [i \in 1..Len(entries) |->
                          NodeVulnerability(entries[i].pkg, entries[i].info)]
              n     == NodeCounts(data.metadata, vulns)
          IN  [threw |-> FALSE,
               result |-> [project |-> projectName, language |-> "node",
                           vulnerabilities |-> vulns,
                           totalVulnerabilities |-> n.total,
                           critical |-> n.critical, high |-> n.high,
                           moderate |-> n.moderate, low |-> n.low,
                           auditCommand |-> auditCmd, error |-> Null]]

auditNode(env, projectName) ==
  LET pm       == DetectPm(env.lock)
      auditCmd == NodeAuditCmd(pm)
      raw      == cmd(env.exec)
      log      == <<auditCmd>>
  IN  IF raw.thrown THEN Escaped(log)
      ELSE IF NoRaw(raw)
        THEN Returned(emptyResult(projectName, "node", auditCmd,
                                  "Audit command failed or timed out."), log)
      ELSE IF pm \in {"npm", "pnpm"}
        THEN LET parsed == NodeParse(raw.text, projectName, auditCmd)
             IN  IF parsed.threw
                   THEN Returned(emptyResult(projectName, "node", auditCmd,
                                             "Failed to parse audit output."), log)
                 ELSE Returned(parsed.result, log)
      ELSE Returned(emptyResult(projectName, "node", auditCmd, Null), log)

\* ------------------------------------------------------------ rust adapter

\* cvss is absent, a number (held in tenths: 7.5 is 75) or a string that
\* parseFloat reads as NaN (a CVSS vector).  !cvss holds of a missing score
\* and of 0; every comparison with NaN is false.
mapRustSeverity(cvss) ==
  IF cvss.kind = "absent" \/ (cvss.kind = "number" /\ cvss.tenths = 0)
    THEN "moderate"
  ELSE IF cvss.kind = "number" /\ cvss.tenths >= 90 THEN "critical"
  ELSE IF cvss.kind = "number" /\ cvss.tenths >= 70 THEN "high"
  ELSE IF cvss.kind = "number" /\ cvss.tenths >= 40 THEN "moderate"
  ELSE "low"

AbsentCvss == [kind |-> "absent", tenths |-> 0]

RustVulnerability(v) ==
  [package |-> IF v.advisory.present /\ v.advisory.package # ""
                 THEN v.advisory.package ELSE "unknown",
   severity |-> mapRustSeverity(IF v.advisory.present THEN v.advisory.cvss
                                ELSE AbsentCvss),
   title |-> IF v.advisory.present /\ v.advisory.title # ""
               THEN v.advisory.title ELSE "Unknown vulnerability",
   url |-> IF v.advisory.present THEN v.advisory.url ELSE "",
   fixVersion |-> IF v.patched # "" THEN v.patched ELSE Null,
   currentVersion |-> IF v.version # "" THEN v.version ELSE Null]

\* An adapter's result whose counts are all taken from the list.
CountedResult(projectName, language, vulns, auditCmd) ==
  [project |-> projectName, language |-> language, vulnerabilities |-> vulns,
   totalVulnerabilities |-> Len(vulns),
   critical |-> CountSeverity(vulns, "critical"),
   high |-> CountSeverity(vulns, "high"),
   moderate |-> CountSeverity(vulns, "moderate"),
   low |-> CountSeverity(vulns, "low"),
   auditCommand |-> auditCmd, error |-> Null]

auditRust(env, projectName) ==
  IF ~cmdExists(env, "cargo-audit") /\ ~cmdExists(env, "cargo")
    THEN Returned(emptyResult(projectName, "rust", "cargo audit",
                    "cargo-audit not installed. Run: cargo install cargo-audit"),
                  <<Which("cargo-audit"), Which("cargo")>>)
  ELSE
    LET raw == cmd(env.exec)
        log == (IF cmdExists(env, "cargo-audit") THEN <<Which("cargo-audit")>>
                ELSE <<Which("cargo-audit"), Which("cargo")>>)
               \o <<"cargo audit --json">>
    IN  IF raw.thrown THEN Escaped(log)
        ELSE IF NoRaw(raw)
          THEN Returned(emptyResult(projectName, "rust", "cargo audit --json",
                                    "Audit command failed."), log)
        ELSE IF raw.text.kind # "json"
          THEN Returned(emptyResult(projectName, "rust", "cargo audit --json",
                                    "Failed to parse audit output."), log)
        ELSE
          LET list  == IF raw.text.doc.list.present
                         THEN raw.text.doc.list.items ELSE <<>>
              vulns == [i \in 1..Len(list) |-> RustVulnerability(list[i])]
          IN  Returned(CountedResult(projectName, "rust", vulns,
                                     "cargo audit --json"), log)

\* ---------------------------------------------------------- python adapter

\* An entry whose severity does not look at the fix versions.
PythonVulnerability_AlwaysHigh(d, v) ==
  [package |-> d.name,
   severity |-> "high",
   title |-> IF v.id # "" THEN v.id ELSE "Vulnerability",
   url |-> IF v.alias # "" THEN "https://nvd.nist.gov/vuln/detail/" \o v.alias
           ELSE "",
   fixVersion |-> IF Len(v.fix_versions) # 0 /\ v.fix_versions[1] # ""
                    THEN v.fix_versions[1] ELSE Null,
   currentVersion |-> IF d.version # "" THEN d.version ELSE Null]

PythonVulnerability(d, v) ==
  [package |-> d.name,
   severity |-> IF Len(v.fix_versions) # 0 THEN "high" ELSE "moderate",
   title |-> IF v.id # "" THEN v.id ELSE "Vulnerability",
   url |-> IF v.alias # "" THEN "https://nvd.nist.gov/vuln/detail/" \o v.alias
           ELSE "",
   fixVersion |-> IF Len(v.fix_versions) # 0 /\ v.fix_versions[1] # ""
                    THEN v.fix_versions[1] ELSE Null,
   currentVersion |-> IF d.version # "" THEN d.version ELSE Null]

\* .filter(d => d.vulns && d.vulns.length > 0).flatMap(d => d.vulns.map(...))
RECURSIVE PythonFlatMap(_)
PythonFlatMap(deps) ==
  IF deps = <<>> THEN <<>>
  ELSE LET d == Head(deps)
       IN  (IF d.vulns.present /\ Len(d.vulns.items) > 0
              THEN [i \in 1..Len(d.vulns.items) |->
                      PythonVulnerability(d, d.vulns.items[i])]
              ELSE <<>>)
           \o PythonFlatMap(Tail(deps))

auditPython(env, projectName) ==
  IF ~cmdExists(env, "pip-audit") /\ ~cmdExists(env, "pip3")
    THEN Returned(emptyResult(projectName, "python", "pip-audit",
                    "pip-audit not installed. Run: pip install pip-audit"),
                  <<Which("pip-audit"), Which("pip3")>>)
  ELSE
    LET auditTool == IF cmdExists(env, "pip-audit") THEN "pip-audit" ELSE "pip3"
        auditCmd  == IF auditTool = "pip-audit"
                       THEN "pip-audit --format=json -r requirements.txt"
                       ELSE "pip3 audit --format=json"
        raw       == cmd(env.exec)
        log       == (IF cmdExists(env, "pip-audit") THEN <<Which("pip-audit")>>
                      ELSE <<Which("pip-audit"), Which("pip3")>>)
                     \o <<Which("pip-audit"), auditCmd>>
    IN  IF raw.thrown THEN Escaped(log)
        ELSE IF NoRaw(raw)
          THEN Returned(emptyResult(projectName, "python", auditCmd, Null), log)
        ELSE IF raw.text.kind # "json"
          THEN Returned(emptyResult(projectName, "python", auditCmd,
                                    "Failed to parse audit output."), log)
        ELSE
          LET data  == raw.text.doc
              deps  == IF data.shape \in {"array", "dependencies"}
                         THEN data.items ELSE <<>>
              vulns == PythonFlatMap(deps)
          IN  Returned(CountedResult(projectName, "python", vulns, auditCmd), log)

\* ------------------------------------------------------------- php adapter

PhpVulnerability(pkg, adv) ==
  [package |-> pkg,
   severity |-> "high",
   title |-> IF adv.title # "" THEN adv.title
             ELSE IF adv.advisoryId # "" THEN adv.advisoryId
             ELSE "Vulnerability",
   url |-> adv.link,
   fixVersion |-> Null,
   currentVersion |-> IF adv.affectedVersions # "" THEN adv.affectedVersions
                      ELSE Null]

\* The two nested loops over data.advisories.
RECURSIVE PhpCollect(_)
PhpCollect(groups) ==
  IF groups = <<>> THEN <<>>
  ELSE LET g == Head(groups)
       IN  (IF g.isArray
              THEN [i \in 1..Len(g.items) |-> PhpVulnerability(g.pkg, g.items[i])]
              ELSE <<>>)
           \o PhpCollect(Tail(groups))

auditPhp(env, projectName) ==
  IF ~cmdExists(env, "composer")
    THEN Returned(emptyResult(projectName, "php", "composer audit",
                              "Composer not installed."),
                  <<Which("composer")>>)
  ELSE
    LET raw == cmd(env.exec)
        log == <<Which("composer"), "composer audit --format=json">>
    IN  IF raw.thrown THEN Escaped(log)
        ELSE IF NoRaw(raw)
          THEN Returned(emptyResult(projectName, "php",
                                    "composer audit --format=json", Null), log)
        ELSE IF raw.text.kind # "json"
          THEN Returned(emptyResult(projectName, "php", "composer audit",
                                    "Failed to parse."), log)
        ELSE
          LET groups == IF raw.text.doc.advisories.present
                          THEN raw.text.doc.advisories.groups ELSE <<>>
              vulns  == PhpCollect(groups)
          IN  Returned([project |-> projectName, language |-> "php",
                        vulnerabilities |-> vulns,
                        totalVulnerabilities |-> Len(vulns),
                        critical |-> 0, high |-> Len(vulns), moderate |-> 0,
                        low |-> 0,
                        auditCommand |-> "composer audit --format=json",
                        error |-> Null], log)

\* -------------------------------------------------------------- go adapter

\* The output of govulncheck is read line by line; a line is valid JSON or
\* not, and a valid line carries a vulnerability object or not.
GoVulnerability(v) ==
  [package |-> IF v.module # "" THEN v.module ELSE "unknown",
   severity |-> "high",
   title |-> IF v.id # "" THEN v.id ELSE "Vulnerability",
   url |-> "https://pkg.go.dev/vuln/" \o (IF v.id # "" THEN v.id ELSE "undefined"),
   fixVersion |-> IF v.fixed_version # "" THEN v.fixed_version ELSE Null,
   currentVersion |-> IF v.found_version # "" THEN v.found_version ELSE Null]

\* A loop that gives up at the first line that is not JSON.
RECURSIVE GoCollect_StopAtBadLine(_)
GoCollect_StopAtBadLine(lines) ==
  IF lines = <<>> \/ ~Head(lines).valid THEN <<>>
  ELSE (IF Head(lines).hasVulnerability
          THEN <<GoVulnerability(Head(lines).vulnerability)>> ELSE <<>>)
       \o GoCollect_StopAtBadLine(Tail(lines))

RECURSIVE GoCollect(_)
GoCollect(lines) ==
  IF lines = <<>> THEN <<>>
  ELSE LET line == Head(lines)
       IN  (IF line.valid /\ line.hasVulnerability
              THEN <<GoVulnerability(line.vulnerability)>> ELSE <<>>)
           \o GoCollect(Tail(lines))

auditGo(env, projectName) ==
  IF ~cmdExists(env, "govulncheck")
    THEN Returned(emptyResult(projectName, "go", "govulncheck",
                    "govulncheck not installed. Run: go install golang.org/x/vuln/cmd/govulncheck@latest"),
                  <<Which("govulncheck")>>)
  ELSE
    LET raw == cmd(env.exec)
        log == <<Which("govulncheck"), "govulncheck -json ./...">>
    IN  IF raw.thrown THEN Escaped(log)
        ELSE IF NoRaw(raw)
          THEN Returned(emptyResult(projectName, "go",
                                    "govulncheck -json ./...", Null), log)
        ELSE
          LET vulns == GoCollect(raw.text.doc)
          IN  Returned([project |-> projectName, language |-> "go",
                        vulnerabilities |-> vulns,
                        totalVulnerabilities |-> Len(vulns),
                        critical |-> 0, high |-> Len(vulns), moderate |-> 0,
                        low |-> 0,
                        auditCommand |-> "govulncheck -json ./...",
                        error |-> Null], log)

\* ----------------------------------------------------------------- dispatch

\* A dispatcher that falls back to the node adapter.
auditProject_Fallback(env, projectName, language) ==
  CASE language = "rust"   -> auditRust(env, projectName)
    [] language = "python" -> auditPython(env, projectName)
    [] language = "php"    -> auditPhp(env, projectName)
    [] language = "go"     -> auditGo(env, projectName)
    [] OTHER               -> auditNode(env, projectName)

\* A dispatcher that probes with npm when the selected adapter reports an
\* error.
auditProject_Probing(env, projectName, language) ==
  LET selected ==
        CASE language = "node"   -> auditNode(env, projectName)
          [] language = "rust"   -> auditRust(env, projectName)
          [] language = "python" -> auditPython(env, projectName)
          [] language = "php"    -> auditPhp(env, projectName)
          [] language = "go"     -> auditGo(env, projectName)
          [] OTHER               ->
               Returned(emptyResult(projectName, language, "N/A",
                          "No audit tool available for " \o language \o "."),
                        <<>>)
  IN  IF ~selected.thrown /\ selected.result.error # Null
        THEN [selected EXCEPT !.log = @ \o <<"npm audit --json">>]
        ELSE selected

auditProject(env, projectName, language) ==
  CASE language = "node"   -> auditNode(env, projectName)
    [] language = "rust"   -> auditRust(env, projectName)
    [] language = "python" -> auditPython(env, projectName)
    [] language = "php"    -> auditPhp(env, projectName)
    [] language = "go"     -> auditGo(env, projectName)
    [] OTHER               ->
         Returned(emptyResult(projectName, language, "N/A",
                    "No audit tool available for " \o language \o "."), <<>>)

\* The filter of auditAllProjects: r.totalVulnerabilities > 0 || r.error
Kept(r) == r.totalVulnerabilities > 0 \/ r.error # Null

\* ---------------------------------------------------------- version inputs

RECURSIVE Join(_, _)
Join(pieces, sep) ==
  IF pieces = <<>> THEN <<>>
  ELSE IF Len(pieces) = 1 THEN pieces[1]
  ELSE pieces[1] \o <<sep>> \o Join(Tail(pieces), sep)

Tuples(S, n) == UNION {[1..k -> S] : k \in 1..n}

Prefixes == {<<>>, <<"v">>}

\* Components as they occur in version strings: plain numbers, empty,
\* pre-release suffixes, a sign, letters only.
ComponentSamples ==
  { <<>>, <<"0">>, <<"1">>, <<"3">>, <<"1", "0">>,
    <<"-", "2">>, <<"2", "b">>, <<"0", "-", "b">>, <<"b">> }

PlainComponents == { <<"0">>, <<"1">>, <<"3">> }

\* The versions of the specification's examples.
ExampleVersions ==
  { <<"5", ".", "1">>, <<"5", ".", "1", ".", "0">>,
    <<"v", "5", ".", "1", ".", "0">>,
    <<"5", ".", "6", ".", "1">>, <<"5", ".", "6", ".", "2">>,
    <<"1", ".", "2", ".", "3">> }

LeftVersions ==
  {p \o Join(cs, ".") : p \in Prefixes, cs \in Tuples(ComponentSamples, MaxComponents)}
    \cup ExampleVersions

RightVersions ==
  {Join(cs, ".") : cs \in Tuples(PlainComponents, MaxComponents)}
    \cup ExampleVersions

\* ------------------------------------------- specification: the comparator

\* No call of the comparator, of the matcher.
CmpIdle ==
  /\ va = <<>> /\ vb = <<>>
  /\ cmpCall = [done |-> FALSE, pa |-> <<>>, pb |-> <<>>, out |-> 0]

RangeIdle ==
  /\ rv = <<>> /\ rr = <<>>
  /\ rangeCall = [done |-> FALSE, out |-> FALSE]

NoFiles == [pkgJson |-> "absent", dependencies |-> <<>>,
            devDependencies |-> <<>>, nm |-> <<>>]

NoCveCall ==
  [done |-> FALSE, thrown |-> FALSE, installed |-> <<>>,
   result |-> [project |-> Null, affected |-> <<>>, scannedPackages |-> 0]]

NoStats ==
  [done |-> FALSE, total |-> 0, packages |-> <<>>, lastUpdate |-> "unknown"]

NoCheckAll == [done |-> FALSE, thrown |-> FALSE, results |-> <<>>]

NoSession ==
  [calls |-> 0, previous |-> NoCveCall, stats |-> NoStats, all |-> NoCheckAll]

CveIdle ==
  /\ catalog = CVE_DATABASE
  /\ fs = NoFiles
  /\ cveCall = NoCveCall
  /\ session = NoSession

ScanIdle ==
  /\ projects = <<>> /\ idx = 1 /\ results = <<>> /\ spawned = <<>>
  /\ clean = FALSE /\ output = <<>> /\ pc = "done" /\ thrown = FALSE

AuditIdle == target = Null /\ auditCall = Null

NoChild == [project |-> 0, n |-> 0, command |-> Null]

NoCall ==
  [active |-> FALSE, script |-> <<>>, n |-> 0, child |-> NoChild,
   ret |-> Returned(emptyResult(Null, Null, Null, Null), <<>>)]

SeqIdle == call = NoCall /\ running = {}

InitCmp ==
  /\ va \in LeftVersions
  /\ vb \in RightVersions
  /\ cmpCall = [done |-> FALSE, pa |-> <<>>, pb |-> <<>>, out |-> 0]
  /\ RangeIdle
  /\ CveIdle
  /\ ScanIdle
  /\ AuditIdle /\ SeqIdle

\* One call compareVersions(va, vb).
Compare ==
  /\ ~cmpCall.done
  /\ cmpCall' = [done |-> TRUE, pa |-> parseVersion(va), pb |-> parseVersion(vb),
                 out |-> compareVersions(va, vb)]
  /\ UNCHANGED <<va, vb, rangeVars, cveVars, scanVars, auditVars, seqVars>>

NextCmp == Compare

SpecCmp == InitCmp /\ [][NextCmp]_vars


\* ------------------------------------------------------------ range inputs

\* Longest generated range expression: number of tokens.
MaxTokens == 2

OpSamples ==
  { <<">", "=">>, <<">">>, <<"<", "=">>, <<"<">>, <<"=">>, <<"=", "=">>,
    <<"!", "=">>, <<>> }

TargetSamples == { <<"5", ".", "1", ".", "0">>, <<"5", ".", "6", ".", "2">>, <<>> }

\* Operator and version glued together, a bare operator, a bare version,
\* the empty token, and a word.
TokenSamples ==
  {op \o t : op \in OpSamples, t \in TargetSamples}
    \cup { <<"n", "o", "t", "-", "a", "-", "c", "o", "n", "s", "t", "r", "a", "i", "n", "t">> }

RangeSamples == {Join(ts, " ") : ts \in Tuples(TokenSamples, MaxTokens)}

RangeVersions ==
  { <<"5", ".", "6", ".", "1">>, <<"5", ".", "6", ".", "2">>,
    <<"5", ".", "1", ".", "0">>, <<"5", ".", "0", ".", "9">>,
    <<"1", ".", "2", ".", "3">>, <<"0">> }

\* ------------------------------------------ specification: the range matcher

InitRange ==
  /\ rv \in RangeVersions
  /\ rr \in RangeSamples
  /\ rangeCall = [done |-> FALSE, out |-> FALSE]
  /\ CmpIdle
  /\ CveIdle
  /\ ScanIdle
  /\ AuditIdle /\ SeqIdle

\* One call isInRange(rv, rr).
InRange ==
  /\ ~rangeCall.done
  /\ rangeCall' = [done |-> TRUE, out |-> isInRange(rv, rr)]
  /\ UNCHANGED <<rv, rr, cmpVars, cveVars, scanVars, auditVars, seqVars>>

NextRange == InRange

SpecRange == InitRange /\ [][NextRange]_vars

\* ----------------------------------------------------------- project inputs

\* Most packages a generated package.json declares.
MaxDeps == 2

DepNames == {"devalue", "express", "@sveltejs/kit", "@sveltejs/adapter-node"}

\* The packages a project declares under devDependencies.
DevNames == {"@sveltejs/kit", "@sveltejs/adapter-node"}

\* Declared specifiers: "^5.2.0", "2.49.1", ">=5.6.2" and "".
SpecifierSamples ==
  { <<"^", "5", ".", "2", ".", "0">>, <<"2", ".", "4", "9", ".", "1">>,
    <<">", "=", "5", ".", "6", ".", "2">>, <<>> }

\* node_modules/<name>/package.json: missing, not JSON, or an object whose
\* version is "5.4.0", missing, or a number.
ManifestSamples ==
  { [file |-> "absent", version |-> Undefined],
    [file |-> "invalid", version |-> Undefined],
    [file |-> "ok", version |-> StrVal(<<"5", ".", "4", ".", "0">>)],
    [file |-> "ok", version |-> Undefined],
    [file |-> "ok", version |-> NumVal] }

Restrict(f, S) == [n \in (DOMAIN f) \cap S |-> f[n]]

ProjectFiles ==
  { [pkgJson |-> "absent", dependencies |-> <<>>, devDependencies |-> <<>>,
     nm |-> <<>>],
    [pkgJson |-> "invalid", dependencies |-> <<>>, devDependencies |-> <<>>,
     nm |-> <<>>] }
  \cup
  UNION { { [pkgJson |-> "ok",
             dependencies |-> Restrict(specs, D \ DevNames),
             devDependencies |-> Restrict(specs, DevNames),
             nm |-> nm] :
            specs \in [D -> SpecifierSamples], nm \in [D -> ManifestSamples] } :
          D \in {X \in SUBSET DepNames : Cardinality(X) <= MaxDeps} }

\* ------------------------------------- specification: the catalog lookup

InitCve ==
  /\ catalog = CVE_DATABASE
  /\ fs \in ProjectFiles
  /\ cveCall = NoCveCall
  /\ session = NoSession
  /\ CmpIdle
  /\ RangeIdle
  /\ ScanIdle
  /\ AuditIdle /\ SeqIdle

\* One call checkProjectCves(path, "app") on the project whose files are fs.
CheckProjectCves ==
  /\ ~cveCall.done
  /\ LET r == checkProjectCves(catalog, fs, "app")
     IN  cveCall' = [done |-> TRUE, thrown |-> r.thrown,
                     installed |-> getInstalledVersions(fs),
                     result |-> [project |-> r.project, affected |-> r.affected,
                                 scannedPackages |-> r.scannedPackages]]
  /\ UNCHANGED <<catalog, fs, session, cmpVars, rangeVars, scanVars, auditVars, seqVars>>

NextCve == CheckProjectCves

SpecCve == InitCve /\ [][NextCve]_vars

\* ---------------------------------- specification: the callers of the catalog

\* Most calls made on the catalog in one run of the process.
MaxCalls == 3

\* Projects that declare no other packages than @sveltejs/kit and
\* @sveltejs/adapter-node.
SessionProjects ==
  {f \in ProjectFiles : DOMAIN AllDeps(f) \subseteq DevNames}

InitCatalog ==
  /\ catalog = CVE_DATABASE
  /\ fs \in SessionProjects
  /\ cveCall = NoCveCall
  /\ session = NoSession
  /\ CmpIdle /\ RangeIdle /\ ScanIdle /\ AuditIdle /\ SeqIdle

\* checkProjectCves(path, "app"): the catalog is read, never written.
CallCheckProjectCves ==
  /\ session.calls < MaxCalls
  /\ LET r == checkProjectCves(catalog, fs, "app")
     IN  cveCall' = [done |-> TRUE, thrown |-> r.thrown,
                     installed |-> getInstalledVersions(fs),
                     result |-> [project |-> r.project, affected |-> r.affected,
                                 scannedPackages |-> r.scannedPackages]]
  /\ session' = [session EXCEPT !.calls = @ + 1, !.previous = cveCall]
  /\ UNCHANGED <<catalog, fs, cmpVars, rangeVars, scanVars, auditVars, seqVars>>

\* checkAllProjectCves on the project and on a directory without package.json.
CallCheckAllProjectCves ==
  /\ session.calls < MaxCalls
  /\ LET r == checkAllProjectCves(catalog,
                 << [name |-> "app", files |-> fs],
                    [name |-> "empty", files |-> NoFiles] >>)
     IN  session' = [session EXCEPT !.calls = @ + 1,
                       !.all = [done |-> TRUE, thrown |-> r.thrown,
                                results |-> r.results]]
  /\ UNCHANGED <<catalog, fs, cveCall, cmpVars, rangeVars, scanVars, auditVars, seqVars>>

\* getCveDatabaseStats()
CallGetCveDatabaseStats ==
  /\ session.calls < MaxCalls
  /\ LET r == getCveDatabaseStats(catalog)
     IN  /\ catalog' = r.db
         /\ session' = [session EXCEPT !.calls = @ + 1,
                           !.stats = [done |-> TRUE, total |-> r.total,
                                      packages |-> r.packages,
                                      lastUpdate |-> r.lastUpdate]]
  /\ UNCHANGED <<fs, cveCall, cmpVars, rangeVars, scanVars, auditVars, seqVars>>

NextCatalog ==
  \/ CallCheckProjectCves
  \/ CallCheckAllProjectCves
  \/ CallGetCveDatabaseStats

SpecCatalog == InitCatalog /\ [][NextCatalog]_vars

\* ------------------------------------------------------------- scan inputs

\* Longest list of projects handed to auditAllProjects.
MaxProjects == 2

ProjectNames == <<"a", "b", "c", "d", "e", "f">>

SupportedLanguages == {"node", "rust", "python", "php", "go"}

\* The ecosystem tags of the generated projects; two have no adapter.
Languages == SupportedLanguages \cup {"ruby", "Node"}

ProjectLists ==
  UNION { { [i \in 1..n |-> [name |-> ProjectNames[i], language |-> tags[i]]] :
            tags \in [1..n -> Languages] } : n \in 0..MaxProjects }

\* What a tool wrote, for each way a subprocess ends.  A subprocess that
\* exits with 0 wrote nothing to report on stderr; one that exits with
\* another code wrote a diagnostic on stderr, or nothing at all; one that is
\* killed on the deadline wrote nothing, or the start of a document.
Execs(stdouts, empty, garbage) ==
  {[exit |-> "zero", stdout |-> t, stderr |-> empty] : t \in stdouts}
    \cup {[exit |-> "nonzero", stdout |-> t, stderr |-> garbage] : t \in stdouts}
    \cup {[exit |-> "nonzero", stdout |-> empty, stderr |-> empty]}
    \cup {[exit |-> "timeout", stdout |-> t, stderr |-> empty] :
            t \in {empty, garbage}}

\* What execSync throws when the shell cannot run the command because a
\* binary is missing: a non-zero exit, nothing on stdout, the shell's or
\* the driver's diagnostic on stderr.
NotFound(empty, garbage) ==
  [exit |-> "nonzero", stdout |-> empty, stderr |-> garbage]

\* The program that the audit command of a node project starts.
NodeBin(pm) == IF pm \in {"pnpm", "yarn"} THEN pm ELSE "npm"

\* The binaries that the audit command of the adapter needs.
RequiredBins(language, env) ==
  CASE language = "node"   -> {NodeBin(DetectPm(env.lock))}
    [] language = "rust"   -> {"cargo", "cargo-audit"}
    [] language = "python" -> IF "pip-audit" \in env.bins \/ "pip3" \notin env.bins
                                THEN {"pip-audit"} ELSE {"pip3"}
    [] language = "php"    -> {"composer"}
    [] language = "go"     -> {"govulncheck"}
    [] OTHER               -> {}

ToolMissing(language, env) == ~(RequiredBins(language, env) \subseteq env.bins)

\* ---- npm audit --json / pnpm audit --json

NodeNoDoc ==
  [vulnerabilities |-> [present |-> FALSE, entries |-> <<>>], metadata |-> <<>>]

NodeText(kind) == [kind |-> kind, doc |-> NodeNoDoc]

InfoCritical ==
  [isNull |-> FALSE, severity |-> "critical",
   via |-> [isArray |-> TRUE,
            items |-> << [isObject |-> FALSE, title |-> "", url |-> ""],
                         [isObject |-> TRUE, title |-> "Prototype pollution",
                          url |-> "https://github.com/advisories/GHSA-0001"] >>],
   fixAvailable |-> [kind |-> "object", version |-> "2.0.0"],
   range |-> "<2.0.0"]

InfoNoSeverity ==
  [isNull |-> FALSE, severity |-> "",
   via |-> [isArray |-> FALSE, items |-> <<>>],
   fixAvailable |-> [kind |-> "true", version |-> ""],
   range |-> ""]

InfoNull ==
  [isNull |-> TRUE, severity |-> "",
   via |-> [isArray |-> FALSE, items |-> <<>>],
   fixAvailable |-> [kind |-> "false", version |-> ""],
   range |-> ""]

MetaCounts(total, critical, high, moderate, low) ==
  [k \in {"total", "critical", "high", "moderate", "low"} |->
     CASE k = "total" -> total [] k = "critical" -> critical [] k = "high" -> high
       [] k = "moderate" -> moderate [] k = "low" -> low]

\* The documents: an object without vulnerabilities or metadata; one
\* finding with matching metadata; two findings, the second without a
\* severity, under metadata that counts no moderate; three findings without
\* metadata, the third with a severity word of another taxonomy; an empty
\* vulnerabilities map under metadata that counts one; the older schema,
\* which has counts (and no total) but no vulnerabilities map; an entry that
\* is null.
NodeDocs ==
  { NodeNoDoc,
    [vulnerabilities |-> [present |-> TRUE,
        entries |-> <<[pkg |-> "lodash", info |-> InfoCritical]>>],
     metadata |-> MetaCounts(1, 1, 0, 0, 0)],
    [vulnerabilities |-> [present |-> TRUE,
        entries |-> <<[pkg |-> "lodash", info |-> InfoCritical],
                      [pkg |-> "minimist", info |-> InfoNoSeverity]>>],
     metadata |-> MetaCounts(2, 1, 0, 0, 0)],
    [vulnerabilities |-> [present |-> TRUE,
        entries |-> <<[pkg |-> "lodash", info |-> InfoCritical],
                      [pkg |-> "minimist", info |-> InfoNoSeverity],
                      [pkg |-> "tar",
                       info |-> [InfoCritical EXCEPT !.severity = "medium"]]>>],
     metadata |-> <<>>],
    [vulnerabilities |-> [present |-> TRUE, entries |-> <<>>],
     metadata |-> MetaCounts(1, 1, 0, 0, 0)],
    [vulnerabilities |-> [present |-> FALSE, entries |-> <<>>],
     metadata |-> [k \in {"critical", "high", "moderate", "low"} |->
                     IF k = "high" THEN 1 ELSE 0]],
    [vulnerabilities |-> [present |-> TRUE,
        entries |-> <<[pkg |-> "lodash", info |-> InfoNull]>>],
     metadata |-> <<>>] }

NodeStdouts ==
  {NodeText("empty"), NodeText("blank"), NodeText("garbage"), NodeText("jsonNull")}
    \cup {[kind |-> "json", doc |-> d] : d \in NodeDocs}

\* The lock files of the project directory: none, and for each package
\* manager the directory in which it wins over every manager after it.
NodeLocks ==
  { {}, {"bun.lockb"}, {"yarn.lock", "bun.lockb"},
    {"pnpm-lock.yaml", "yarn.lock", "bun.lockb"} }

\* The package manager is installed and the audit ends in any way, or it
\* is not installed and the shell reports that.
NodeEnvs ==
  {[lock |-> l, bins |-> {NodeBin(DetectPm(l))}, exec |-> e] :
     l \in NodeLocks,
     e \in Execs(NodeStdouts, NodeText("empty"), NodeText("garbage"))}
    \cup {[lock |-> l, bins |-> {},
           exec |-> NotFound(NodeText("empty"), NodeText("garbage"))] :
            l \in NodeLocks}

\* ---- cargo audit --json

RustNoDoc == [list |-> [present |-> FALSE, items |-> <<>>]]

RustText(kind) == [kind |-> kind, doc |-> RustNoDoc]

RustDocs ==
  { RustNoDoc,
    [list |-> [present |-> TRUE,
       items |-> << [advisory |-> [present |-> TRUE, package |-> "time",
                                   cvss |-> [kind |-> "number", tenths |-> 98],
                                   title |-> "Segfault in time",
                                   url |-> "https://rustsec.org/advisories/RUSTSEC-2020-0071"],
                     patched |-> ">=0.2.23", version |-> "0.1.45"],
                    [advisory |-> [present |-> FALSE, package |-> "",
                                   cvss |-> AbsentCvss, title |-> "", url |-> ""],
                     patched |-> "", version |-> ""] >>]],
    \* one advisory per score 0, 3.9, 4.0, 6.9, 7.0, 8.9 and 9.0, and one
    \* whose cvss is a vector string
    [list |-> [present |-> TRUE,
       items |-> [i \in 1..8 |->
                    [advisory |->
                       [present |-> TRUE, package |-> "openssl",
                        cvss |-> IF i = 8 THEN [kind |-> "string", tenths |-> 0]
                                 ELSE [kind |-> "number",
                                       tenths |-> <<0, 39, 40, 69, 70, 89, 90>>[i]],
                        title |-> "Advisory", url |-> ""],
                     patched |-> "", version |-> "0.10.0"]]]] }

RustStdouts ==
  {RustText("empty"), RustText("garbage"), RustText("jsonNull")}
    \cup {[kind |-> "json", doc |-> d] : d \in RustDocs}

\* A subprocess whose binary is not installed ends as NotFound.
RustEnvs ==
  {e \in {[lock |-> {}, bins |-> b, exec |-> x] :
            b \in SUBSET {"cargo-audit", "cargo"},
            x \in Execs(RustStdouts, RustText("empty"), RustText("garbage"))} :
     ToolMissing("rust", e) =>
       e.exec = NotFound(RustText("empty"), RustText("garbage"))}

\* ---- pip-audit --format=json

PythonNoDoc == [shape |-> "other", items |-> <<>>]

PythonText(kind) == [kind |-> kind, doc |-> PythonNoDoc]

PythonDeps ==
  << [name |-> "requests", version |-> "2.25.0",
      vulns |-> [present |-> TRUE,
                 items |-> << [id |-> "PYSEC-2023-74", alias |-> "CVE-2023-32681",
                               fix_versions |-> <<"2.31.0">>],
                              [id |-> "", alias |-> "", fix_versions |-> <<>>] >>]],
     [name |-> "idna", version |-> "3.4",
      vulns |-> [present |-> TRUE, items |-> <<>>]],
     [name |-> "six", version |-> "1.16.0",
      vulns |-> [present |-> FALSE, items |-> <<>>]] >>

PythonDocs ==
  { PythonNoDoc,
    [shape |-> "array", items |-> <<>>],
    [shape |-> "array", items |-> PythonDeps],
    [shape |-> "dependencies", items |-> PythonDeps] }

PythonStdouts ==
  {PythonText("empty"), PythonText("garbage"), PythonText("jsonNull")}
    \cup {[kind |-> "json", doc |-> d] : d \in PythonDocs}

PythonEnvs ==
  {e \in {[lock |-> {}, bins |-> b, exec |-> x] :
            b \in SUBSET {"pip-audit", "pip3"},
            x \in Execs(PythonStdouts, PythonText("empty"), PythonText("garbage"))} :
     ToolMissing("python", e) =>
       e.exec = NotFound(PythonText("empty"), PythonText("garbage"))}

\* ---- composer audit --format=json

PhpNoDoc == [advisories |-> [present |-> FALSE, groups |-> <<>>]]

PhpText(kind) == [kind |-> kind, doc |-> PhpNoDoc]

PhpDocs ==
  { PhpNoDoc,
    [advisories |-> [present |-> TRUE,
       groups |-> << [pkg |-> "symfony/http-kernel", isArray |-> TRUE,
                      items |-> << [title |-> "", advisoryId |-> "PKSA-1",
                                    link |-> "https://symfony.com/cve-2022-24894",
                                    affectedVersions |-> ">=2.0.0,<4.4.50"] >>],
                     [pkg |-> "twig/twig", isArray |-> FALSE, items |-> <<>>] >>]] }

PhpStdouts ==
  {PhpText("empty"), PhpText("garbage"), PhpText("jsonNull")}
    \cup {[kind |-> "json", doc |-> d] : d \in PhpDocs}

PhpEnvs ==
  {e \in {[lock |-> {}, bins |-> b, exec |-> x] :
            b \in SUBSET {"composer"},
            x \in Execs(PhpStdouts, PhpText("empty"), PhpText("garbage"))} :
     ToolMissing("php", e) =>
       e.exec = NotFound(PhpText("empty"), PhpText("garbage"))}

\* ---- govulncheck -json ./...

GoNoVulnerability ==
  [id |-> "", module |-> "", fixed_version |-> "", found_version |-> ""]

GoBadLine == [valid |-> FALSE, hasVulnerability |-> FALSE,
              vulnerability |-> GoNoVulnerability]

GoConfigLine == [valid |-> TRUE, hasVulnerability |-> FALSE,
                 vulnerability |-> GoNoVulnerability]

GoVulnLine ==
  [valid |-> TRUE, hasVulnerability |-> TRUE,
   vulnerability |-> [id |-> "GO-2023-1571", module |-> "golang.org/x/net",
                      fixed_version |-> "v0.7.0", found_version |-> "v0.5.0"]]

GoStdouts ==
  { [kind |-> "empty", doc |-> <<>>],
    [kind |-> "lines", doc |-> <<GoBadLine>>],
    [kind |-> "lines", doc |-> <<GoConfigLine>>],
    [kind |-> "lines",
     doc |-> <<GoConfigLine, GoVulnLine, GoBadLine,
               [GoVulnLine EXCEPT !.vulnerability.id = "GO-2024-2687"]>>] }

GoEnvs ==
  {e \in {[lock |-> {}, bins |-> b, exec |-> x] :
            b \in SUBSET {"govulncheck"},
            x \in Execs(GoStdouts, [kind |-> "empty", doc |-> <<>>],
                        [kind |-> "lines", doc |-> <<GoBadLine>>])} :
     ToolMissing("go", e) =>
       e.exec = NotFound([kind |-> "empty", doc |-> <<>>],
                         [kind |-> "lines", doc |-> <<GoBadLine>>])}

\* The directory of a project of an ecosystem without adapter.
OtherEnvs == {e \in NodeEnvs : e.exec.exit = "zero" /\ e.lock = {}}

EnvsOf(language) ==
  CASE language = "node"   -> NodeEnvs
    [] language = "rust"   -> RustEnvs
    [] language = "python" -> PythonEnvs
    [] language = "php"    -> PhpEnvs
    [] language = "go"     -> GoEnvs
    [] OTHER               -> OtherEnvs

\* The tool of the project's ecosystem ran, exited with 0 and wrote a
\* well-formed document: none of tool missing, timeout, non-zero exit,
\* malformed output, unsupported ecosystem.
CleanRun(language, env) ==
  /\ language \in SupportedLanguages
  /\ env.exec.exit = "zero"
  /\ env.exec.stdout.kind \in {"json", "lines"}
  /\ language = "node" =>
       \A i \in 1..Len(env.exec.stdout.doc.vulnerabilities.entries) :
         ~env.exec.stdout.doc.vulnerabilities.entries[i].info.isNull
  /\ language = "go" =>
       \A i \in 1..Len(env.exec.stdout.doc) : env.exec.stdout.doc[i].valid

\* ------------------------------------------------- specification: the scan

Init ==
  /\ projects \in ProjectLists
  /\ idx = 1 /\ results = <<>> /\ spawned = <<>> /\ clean = FALSE
  /\ output = <<>> /\ pc = "map" /\ thrown = FALSE
  /\ CmpIdle /\ RangeIdle /\ CveIdle /\ AuditIdle /\ SeqIdle

\* The callback of projects.map for the project at idx, whose directory and
\* tool behave as env: one call of auditProject.  The call for the last
\* project is followed at once by the filter and the return.
AuditStep(env) ==
  LET p == projects[idx]
      r == auditProject(env, p.name, p.language)
  IN  /\ spawned' = r.log
      /\ clean' = CleanRun(p.language, env)
      /\ IF r.thrown
           THEN /\ thrown' = TRUE /\ pc' = "aborted"
                /\ UNCHANGED <<idx, results, output>>
           ELSE /\ results' = Append(results, r.result)
                /\ idx' = idx + 1
                /\ IF idx = Len(projects)
                     THEN output' = SelectSeq(results', Kept) /\ pc' = "done"
                     ELSE UNCHANGED <<output, pc>>
                /\ UNCHANGED thrown
      /\ UNCHANGED <<projects, cmpVars, rangeVars, cveVars, auditVars, seqVars>>

Pending(language) ==
  pc = "map" /\ idx <= Len(projects) /\ projects[idx].language = language

AuditNode   == Pending("node")   /\ \E env \in NodeEnvs : AuditStep(env)

AuditRust   == Pending("rust")   /\ \E env \in RustEnvs : AuditStep(env)

AuditPython == Pending("python") /\ \E env \in PythonEnvs : AuditStep(env)

AuditPhp    == Pending("php")    /\ \E env \in PhpEnvs : AuditStep(env)

AuditGo     == Pending("go")     /\ \E env \in GoEnvs : AuditStep(env)

AuditUnsupported ==
  /\ pc = "map" /\ idx <= Len(projects)
  /\ projects[idx].language \notin SupportedLanguages
  /\ \E env \in OtherEnvs : AuditStep(env)

\* .filter((r) => r.totalVulnerabilities > 0 || r.error), and the return,
\* when map had no project to visit.
Filter ==
  /\ pc = "map" /\ idx > Len(projects)
  /\ output' = SelectSeq(results, Kept)
  /\ pc' = "done"
  /\ UNCHANGED <<projects, idx, results, spawned, clean, thrown,
                 cmpVars, rangeVars, cveVars, auditVars, seqVars>>

Next ==
  \/ AuditNode \/ AuditRust \/ AuditPython \/ AuditPhp \/ AuditGo
  \/ AuditUnsupported
  \/ Filter

Spec == Init /\ [][Next]_vars

\* Every step that can be taken is eventually taken: execSync returns or
\* throws within its timeout.
FairSpec == Spec /\ WF_vars(Next)

\* --------------------------------------- specification: one auditProject call

NoAuditCall ==
  [done |-> FALSE, thrown |-> FALSE,
   result |-> emptyResult(Null, Null, Null, Null), log |-> <<>>]

InitAudit ==
  /\ target \in {[name |-> "a", language |-> l, env |-> e] :
                   l \in Languages, e \in UNION {EnvsOf(k) : k \in Languages}}
  /\ target.env \in EnvsOf(target.language)
  /\ auditCall = NoAuditCall
  /\ CmpIdle /\ RangeIdle /\ CveIdle /\ ScanIdle /\ SeqIdle

\* One call auditProject(path, name, language).
AuditProject ==
  /\ ~auditCall.done
  /\ LET r == auditProject(target.env, target.name, target.language)
     IN  auditCall' = [done |-> TRUE, thrown |-> r.thrown,
                       result |-> r.result, log |-> r.log]
  /\ UNCHANGED <<target, cmpVars, rangeVars, cveVars, scanVars, seqVars>>

NextAudit == AuditProject

SpecAudit == InitAudit /\ [][NextAudit]_vars

\* ------------------------- specification: the subprocesses of one scan

\* A scan whose execSync calls do not wait for the child.
execSyncReturned_Detached(c) == TRUE

\* execSync returns, or throws, once the child it spawned has exited or has
\* been killed at the timeout: until then the caller is blocked inside it.
execSyncReturned(c) == c.child = NoChild

InitSeq ==
  /\ projects \in ProjectLists
  /\ idx = 1 /\ results = <<>> /\ spawned = <<>> /\ clean = FALSE
  /\ output = <<>> /\ pc = "map" /\ thrown = FALSE
  /\ call = NoCall /\ running = {}
  /\ CmpIdle /\ RangeIdle /\ CveIdle /\ AuditIdle

\* map calls its callback for the project at idx: auditProject begins, in a
\* directory and with tools that behave as env.
BeginCall ==
  /\ pc = "map" /\ idx <= Len(projects) /\ ~call.active
  /\ \E env \in EnvsOf(projects[idx].language) :
       LET r == auditProject(env, projects[idx].name, projects[idx].language)
       IN  call' = [active |-> TRUE, script |-> r.log, n |-> 0,
                    child |-> NoChild, ret |-> r]
  /\ UNCHANGED <<running, cmpVars, rangeVars, cveVars, scanVars, auditVars>>

\* The call reaches its next execSync, which spawns the command and waits.
SpawnChild ==
  /\ call.active /\ execSyncReturned(call) /\ call.script # <<>>
  /\ LET child == [project |-> idx, n |-> call.n + 1,
                   command |-> Head(call.script)]
     IN  /\ running' = running \cup {child}
         /\ call' = [call EXCEPT !.script = Tail(@), !.n = @ + 1,
                                 !.child = child]
  /\ UNCHANGED <<cmpVars, rangeVars, cveVars, scanVars, auditVars>>

\* A subprocess exits, or is killed at the timeout; the execSync that waits
\* for it returns or throws.
ChildExits ==
  /\ \E child \in running :
       /\ running' = running \ {child}
       /\ call' = IF call.child = child
                    THEN [call EXCEPT !.child = NoChild] ELSE call
  /\ UNCHANGED <<cmpVars, rangeVars, cveVars, scanVars, auditVars>>

\* auditProject returns to map, which stores the result and moves on; after
\* the last project the filter runs and auditAllProjects returns.
EndCall ==
  /\ call.active /\ execSyncReturned(call) /\ call.script = <<>>
  /\ call' = NoCall
  /\ IF call.ret.thrown
       THEN /\ thrown' = TRUE /\ pc' = "aborted"
            /\ UNCHANGED <<idx, results, output>>
       ELSE /\ results' = Append(results, call.ret.result)
            /\ idx' = idx + 1
            /\ IF idx = Len(projects)
                 THEN output' = SelectSeq(results', Kept) /\ pc' = "done"
                 ELSE UNCHANGED <<output, pc>>
            /\ UNCHANGED thrown
  /\ UNCHANGED <<projects, spawned, clean, running,
                 cmpVars, rangeVars, cveVars, auditVars>>

NextSeq == BeginCall \/ SpawnChild \/ ChildExits \/ EndCall \/ Filter

SpecSeq == InitSeq /\ [][NextSeq]_vars

\* ------------------------------------------------- claims on the comparator

PadTo(p, n) == [i \in 1..n |-> IF i <= Len(p) THEN p[i] ELSE 0]

\* C7, as stated: the comparator returns exactly one of -1, 0 and 1.
C7_ReturnsMinusOneZeroOne ==
  cmpCall.done => cmpCall.out \in {-1, 0, 1}

\* C7, amended: the comparator returns 0 when the two component sequences,
\* each padded with zeros to the longer length, are equal, and otherwise the
\* signed difference of the first components that differ: negative or
\* positive, of any magnitude.
C7_ReturnsFirstDifference ==
  cmpCall.done =>
    LET n == Max(Len(cmpCall.pa), Len(cmpCall.pb))
        A == PadTo(cmpCall.pa, n)
        B == PadTo(cmpCall.pb, n)
    IN  IF A = B THEN cmpCall.out = 0
        ELSE LET k == CHOOSE i \in 1..n :
                         A[i] # B[i] /\ \A j \in 1..(i - 1) : A[j] = B[j]
             IN  cmpCall.out = A[k] - B[k] /\ cmpCall.out # 0

\* A call whose result is neither -1, 0 nor 1, decided past the end of the
\* shorter version.
C7_Witness ==
  /\ cmpCall.done
  /\ cmpCall.out < -1
  /\ Len(cmpCall.pa) < Len(cmpCall.pb)

IsPlainNumber(c) == c # <<>> /\ \A i \in 1..Len(c) : IsDigit(c[i])

Components(v) == SplitOn(StripLeadingNonDigits(v), ".")

\* A dotted-numeric version: after the prefix, plain numbers between dots.
IsDotted(v) == \A i \in 1..Len(Components(v)) : IsPlainNumber(Components(v)[i])

NumericComponents(v) ==
  [i \in 1..Len(Components(v)) |-> DecimalValue(Components(v)[i])]

RECURSIVE TrimZeros(_)
TrimZeros(p) ==
  IF p = <<>> \/ p[Len(p)] # 0 THEN p ELSE TrimZeros(SubSeq(p, 1, Len(p) - 1))

\* C8: two dotted versions with the same numeric components, once the
\* leading non-digit prefix is stripped and trailing zero components are
\* ignored, compare as equal; so do "5.1" and "5.1.0", "v5.1.0" and "5.1".
C8_EqualModuloPrefixAndZeros ==
  cmpCall.done =>
    /\ ( /\ IsDotted(va) /\ IsDotted(vb)
         /\ TrimZeros(NumericComponents(va)) = TrimZeros(NumericComponents(vb)) )
       => cmpCall.out = 0
    /\ (va = <<"5", ".", "1">> /\ vb = <<"5", ".", "1", ".", "0">>)
       => cmpCall.out = 0
    /\ (va = <<"v", "5", ".", "1", ".", "0">> /\ vb = <<"5", ".", "1">>)
       => cmpCall.out = 0

\* A prefixed version with a trailing zero compared with its short form.
C8_Witness ==
  /\ cmpCall.done
  /\ va = <<"v", "5", ".", "1", ".", "0">>
  /\ vb = <<"5", ".", "1">>
  /\ cmpCall.out = 0

\* C9, as stated: every component that is not a plain non-negative decimal
\* number is treated as 0.
C9_NonPlainComponentIsZero ==
  cmpCall.done =>
    /\ Len(cmpCall.pa) = Len(Components(va))
    /\ \A i \in 1..Len(Components(va)) :
         ~IsPlainNumber(Components(va)[i]) => cmpCall.pa[i] = 0

\* The position of the first digit of c, when only white space and then at
\* most one sign precede it; 0 when c has no such digit.
LeadingIntAt(c) ==
  LET ok(k) == /\ IsDigit(c[k])
               /\ \A j \in 1..(k - 1) :
                    \/ IsSpace(c[j]) /\ \A l \in 1..j : IsSpace(c[l])
                    \/ j = k - 1 /\ c[j] \in {"+", "-"}
                         /\ \A l \in 1..(j - 1) : IsSpace(c[l])
  IN  IF \E k \in 1..Len(c) : ok(k) THEN CHOOSE k \in 1..Len(c) : ok(k) ELSE 0

\* The last digit of the run of digits that starts at k.
RunEnd(c, k) ==
  CHOOSE m \in k..Len(c) :
    /\ \A j \in k..m : IsDigit(c[j])
    /\ m = Len(c) \/ ~IsDigit(c[m + 1])

\* C9, amended: every component is read by its leading integer (white
\* space, at most one sign, then the longest run of digits); a component
\* without one is treated as 0, "2b" is read as 2 and "-2" as -2; the
\* comparator returns an integer for every input.
C9_ComponentIsLeadingInteger ==
  cmpCall.done =>
    /\ Len(cmpCall.pa) = Len(Components(va))
    /\ \A i \in 1..Len(Components(va)) :
         LET c == Components(va)[i]
             k == LeadingIntAt(c)
         IN  IF k = 0 THEN cmpCall.pa[i] = 0
             ELSE LET n == DecimalValue(SubSeq(c, k, RunEnd(c, k)))
                  IN  cmpCall.pa[i] = IF k > 1 /\ c[k - 1] = "-" THEN 0 - n ELSE n
    /\ cmpCall.out \in Int

\* A version with a negative component and one with a suffixed component.
C9_Witness ==
  /\ cmpCall.done
  /\ \E i \in 1..Len(cmpCall.pa) :
       ~IsPlainNumber(Components(va)[i]) /\ cmpCall.pa[i] # 0


\* ---------------------------------------------- claims on the range matcher

SupportedOps ==
  { <<">", "=">>, <<">">>, <<"<", "=">>, <<"<">>, <<"=">>, <<"=", "=">> }

\* A constraint: a supported operator directly followed by a version string,
\* which is read here as any text that does not start with an operator
\* character.
IsConstraint(t) ==
  LeadingOpChars(t) \in SupportedOps /\ Len(LeadingOpChars(t)) < Len(t)

ConstraintOp(t) == LeadingOpChars(t)

ConstraintVersion(t) == SubSeq(t, Len(LeadingOpChars(t)) + 1, Len(t))

\* What a constraint asks of the comparator's result c.
Holds(op, c) ==
  CASE op = <<">", "=">> -> c >= 0
    [] op = <<">">>      -> c > 0
    [] op = <<"<", "=">> -> c <= 0
    [] op = <<"<">>      -> c < 0
    [] op \in {<<"=">>, <<"=", "=">>} -> c = 0

AllConstraintsHold(v, r) ==
  \A i \in 1..Len(SplitWs(r)) :
    LET t == SplitWs(r)[i]
    IN  IsConstraint(t) =>
          Holds(ConstraintOp(t), compareVersions(v, ConstraintVersion(t)))

Range_5_1_to_5_6_2 ==
  <<">", "=", "5", ".", "1", ".", "0", " ", "<", "5", ".", "6", ".", "2">>

\* C4: isInRange(v, r) is true exactly when every whitespace-separated
\* constraint of r with a supported operator holds for v; an upper bound
\* "<X" excludes X: 5.6.1 is in ">=5.1.0 <5.6.2" and 5.6.2 is not.
C4_RangeIsConjunction ==
  rangeCall.done =>
    /\ rangeCall.out = AllConstraintsHold(rv, rr)
    /\ (rr = Range_5_1_to_5_6_2 /\ rv = <<"5", ".", "6", ".", "1">>)
         => rangeCall.out
    /\ (rr = Range_5_1_to_5_6_2 /\ rv = <<"5", ".", "6", ".", "2">>)
         => ~rangeCall.out

\* The tokens of r that consist of operator characters only.
HasBareOperator(r) ==
  \E i \in 1..Len(SplitWs(r)) :
    LET t == SplitWs(r)[i] IN Len(t) >= 2 /\ LeadingOpChars(t) = t

\* C4 on the range expressions without a token of operator characters only.
C4_ConjunctionWithoutBareOperators ==
  (rangeCall.done /\ ~HasBareOperator(rr)) =>
    rangeCall.out = AllConstraintsHold(rv, rr)

\* C5: isInRange is fail-open: a token that is not a supported operator
\* directly followed by a version string does not constrain the result, and
\* a range expression made only of such tokens yields true.
C5_FailOpen ==
  rangeCall.done =>
    /\ rangeCall.out \in BOOLEAN
    /\ rangeCall.out = isInRange(rv, Join(SelectSeq(SplitWs(rr), IsConstraint), " "))
    /\ (\A i \in 1..Len(SplitWs(rr)) : ~IsConstraint(SplitWs(rr)[i]))
         => rangeCall.out


\* --------------------------------------------- claims on the catalog lookup

\* C6: checkProjectCves returns a match for catalog record A exactly when
\* the installed-version map has an entry named A.package whose version is
\* in A.affectedVersions; every match carries isAffected = true and that
\* installed version.
C6_MatchIffInstalledInRange ==
  (cveCall.done /\ ~cveCall.thrown) =>
    LET installed == cveCall.installed
        affected  == cveCall.result.affected
    IN  /\ \A i \in 1..Len(catalog) :
             (\E j \in 1..Len(affected) : affected[j].advisory = catalog[i])
               <=> /\ catalog[i].package \in DOMAIN installed
                   /\ installed[catalog[i].package].kind = "string"
                   /\ isInRange(installed[catalog[i].package].s,
                                catalog[i].affectedVersions)
        /\ \A j \in 1..Len(affected) :
             /\ affected[j].isAffected = TRUE
             /\ affected[j].installedVersion
                  = installed[affected[j].advisory.package].s


\* ------------------------------------------------------ claims on the scan

Severities == {"critical", "high", "moderate", "low"}

CountField(r, sev) ==
  CASE sev = "critical" -> r.critical [] sev = "high" -> r.high
    [] sev = "moderate" -> r.moderate [] sev = "low" -> r.low

\* C1: in every AuditResult returned by auditProject, for every ecosystem
\* and every tool output, each of critical, high, moderate and low equals
\* the number of entries of the result's vulnerabilities list that have
\* that severity.
C1_CountsMatchList ==
  \A i \in 1..Len(results) : \A sev \in Severities :
    CountField(results[i], sev) = CountSeverity(results[i].vulnerabilities, sev)

HasFindingOrError(r) == Len(r.vulnerabilities) > 0 \/ r.error # Null

\* C2: auditAllProjects returns exactly the per-project results that have
\* at least one finding or a non-null error, in the order of the projects:
\* a result with zero vulnerabilities and a null error is absent, every
\* result with a finding or an error is present.
C2_OutputIsFindingsOrErrors ==
  pc = "done" => output = SelectSeq(results, HasFindingOrError)

\* The state of C3 at every moment of a scan: no exception has escaped,
\* the results so far are those of the first projects in order, the result
\* of the latest call carries an error only when that call's own run failed,
\* and a result with an error carries nothing else.
C3_FailuresStayInOwnResult ==
  /\ ~thrown /\ pc # "aborted"
  /\ Len(results) = idx - 1 /\ Len(results) <= Len(projects)
  /\ \A i \in 1..Len(results) :
       /\ results[i].project = projects[i].name
       /\ results[i].language = projects[i].language
       /\ results[i].error # Null =>
            /\ results[i].vulnerabilities = <<>>
            /\ results[i].totalVulnerabilities = 0
  /\ (idx > 1 /\ clean) => results[idx - 1].error = Null
  /\ pc = "done" => Len(results) = Len(projects)

\* A step of the scan leaves the results of the earlier projects as they are.
C3_EarlierResultsKept ==
  \A i \in 1..Len(results) : i <= Len(results') /\ results'[i] = results[i]

\* C3: auditAllProjects always completes and never throws, for every list
\* of projects and every combination of per-project outcomes (tool
\* missing, timeout, non-zero exit, malformed output, unsupported
\* ecosystem); each failure appears only as the error field of that
\* project's own result.
C3_ScanCompletesWithoutThrowing ==
  /\ [](C3_FailuresStayInOwnResult)
  /\ [][C3_EarlierResultsKept]_vars
  /\ <>(pc = "done")

\* A finished scan of two projects: the tool of the first failed after it
\* was spawned, the tool of the second ran cleanly and reported findings.
C3_Witness ==
  /\ pc = "done" /\ Len(results) = 2
  /\ results[1].language \in SupportedLanguages
  /\ results[1].error = "Failed to parse audit output."
  /\ clean /\ results[2].error = Null
  /\ Len(results[2].vulnerabilities) > 0
  /\ output = results

\* C10: auditProject called with an ecosystem tag outside {node, rust,
\* python, php, go} returns, without throwing and without running any
\* subprocess, a result with a non-null descriptive error, an empty
\* vulnerability list and all counts zero.
C10_UnsupportedIsErrorResult ==
  /\ (thrown \/ pc = "aborted") =>
       projects[idx].language \in SupportedLanguages
  /\ (idx > 1 /\ projects[idx - 1].language \notin SupportedLanguages) =>
       spawned = <<>>
  /\ \A i \in 1..Len(results) :
       projects[i].language \notin SupportedLanguages =>
         /\ results[i].error # Null
         /\ results[i].error
              = "No audit tool available for " \o projects[i].language \o "."
         /\ results[i].vulnerabilities = <<>>
         /\ results[i].totalVulnerabilities = 0
         /\ \A sev \in Severities : CountField(results[i], sev) = 0

\* Both unsupported tags have been audited, one of them the tag of a
\* supported ecosystem in another letter case, and no command was run.
C10_Witness ==
  /\ Len(results) = 2
  /\ results[1].language = "Node" /\ results[2].language = "ruby"
  /\ results[1].error = "No audit tool available for Node."
  /\ spawned = <<>>



\* The audit commands of the five adapters.
AuditCommands ==
  {"npm audit --json", "pnpm audit --json", "yarn audit --json",
   "cargo audit --json", "pip-audit --format=json -r requirements.txt",
   "pip3 audit --format=json", "composer audit --format=json",
   "govulncheck -json ./..."}

RanAuditCommand(log) == \E i \in 1..Len(log) : log[i] \in AuditCommands

\* The commands an adapter can run: the probes of cmdExists and the audit
\* command, per ecosystem tag.
CommandsOf(language) ==
  CASE language = "node"   ->
         {"npm audit --json", "pnpm audit --json", "yarn audit --json"}
    [] language = "rust"   ->
         {Which("cargo-audit"), Which("cargo"), "cargo audit --json"}
    [] language = "python" ->
         {Which("pip-audit"), Which("pip3"),
          "pip-audit --format=json -r requirements.txt",
          "pip3 audit --format=json"}
    [] language = "php"    ->
         {Which("composer"), "composer audit --format=json"}
    [] language = "go"     ->
         {Which("govulncheck"), "govulncheck -json ./..."}
    [] OTHER               -> {}

\* The project of the latest auditProject call: the one whose result was
\* appended last, or the one whose call threw.
LatestProject == IF thrown THEN idx ELSE Len(results)

\* C18: for every project auditAllProjects invokes exactly one adapter, the
\* one selected by the project's ecosystem tag: the result carries the
\* project's name and tag, at most one audit command is run, and every
\* command run for the project is one of its ecosystem, also when the
\* adapter reports tool-missing, a timeout or a parse failure.
C18_OnlySelectedAdapterRuns ==
  /\ \A i \in 1..Len(results) :
       /\ results[i].project = projects[i].name
       /\ results[i].language = projects[i].language
  /\ LatestProject > 0 =>
       /\ \A k \in 1..Len(spawned) :
            spawned[k] \in CommandsOf(projects[LatestProject].language)
       /\ Cardinality({k \in 1..Len(spawned) : spawned[k] \in AuditCommands}) <= 1

\* A project outside node whose adapter ran its command and reported an
\* error.
C18_Witness ==
  /\ ~thrown /\ Len(results) > 0
  /\ projects[Len(results)].language \in SupportedLanguages \ {"node"}
  /\ results[Len(results)].error # Null
  /\ RanAuditCommand(spawned)


\* C19 is stated on the subprocesses of one scan.

\* C19: during auditAllProjects projects are scanned strictly one at a time
\* in input order: at most one subprocess is outstanding at any moment, and
\* a subprocess of project i+1 is outstanding only after the result of
\* project i, and of every project before it, has been produced and before
\* its own has.
C19_OneSubprocessInInputOrder ==
  /\ Cardinality(running) <= 1
  /\ \A child \in running :
       /\ child.project = Len(results) + 1
       /\ child.project <= Len(projects)
       /\ call.active /\ call.child = child
  /\ \A i \in 1..Len(results) : results[i].project = projects[i].name

\* The first subprocess of the second project is outstanding, after the
\* first project ran two commands and produced its result.
C19_Witness ==
  /\ Len(projects) = 2 /\ Len(results) = 1
  /\ projects[1].language \in {"rust", "php", "go", "python"}
  /\ results[1].auditCommand \in AuditCommands
  /\ \E child \in running : child.project = 2 /\ child.n = 1



\* C17 is stated on one checkProjectCves call.

\* Pairs of catalog records that share an advisory id and name different
\* packages.
SharedIdPairs ==
  {p \in (1..Len(catalog)) \X (1..Len(catalog)) :
     /\ p[1] < p[2]
     /\ catalog[p[1]].id = catalog[p[2]].id
     /\ catalog[p[1]].package # catalog[p[2]].package}

\* The project installs the package of record i in a version, a non-empty
\* string, that the record's range contains.
InstalledAffected(i) ==
  LET v == Lookup(cveCall.installed, catalog[i].package)
  IN  /\ v.kind = "string" /\ v.s # <<>>
      /\ isInRange(v.s, catalog[i].affectedVersions)

MatchesOfRecord(i) ==
  {k \in 1..Len(cveCall.result.affected) :
     cveCall.result.affected[k].advisory = catalog[i]}

MatchesWithId(id) ==
  {k \in 1..Len(cveCall.result.affected) :
     cveCall.result.affected[k].advisory.id = id}

\* C17: catalog records that share an advisory id but name different
\* packages are matched independently and never deduplicated: a project
\* that installs both packages in affected versions gets two matches with
\* the same id, one that installs only one of them in an affected version
\* gets exactly that one.
C17_SharedIdMatchedIndependently ==
  (cveCall.done /\ ~cveCall.thrown) =>
    \A p \in SharedIdPairs :
      LET i == p[1]
          j == p[2]
      IN  /\ Cardinality(MatchesOfRecord(i)) = IF InstalledAffected(i) THEN 1 ELSE 0
          /\ Cardinality(MatchesOfRecord(j)) = IF InstalledAffected(j) THEN 1 ELSE 0
          /\ MatchesWithId(catalog[i].id)
               = MatchesOfRecord(i) \cup MatchesOfRecord(j)
          /\ (InstalledAffected(i) /\ InstalledAffected(j)) =>
               Cardinality(MatchesWithId(catalog[i].id)) = 2

\* A project that installs both packages of a shared id in affected
\* versions, and its two matches.
C17_Witness ==
  /\ cveCall.done /\ ~cveCall.thrown
  /\ \E p \in SharedIdPairs :
       /\ InstalledAffected(p[1]) /\ InstalledAffected(p[2])
       /\ Cardinality(MatchesWithId(catalog[p[1]].id)) = 2

\* ------------------------------------ claims on the callers of the catalog

\* C16: catalog matching is idempotent and read-only: the match run twice
\* on the same installed-version map yields the same list of matches, and
\* no sequence of calls of checkProjectCves, checkAllProjectCves and
\* getCveDatabaseStats changes a field of a record or the order of the
\* catalog.
C16_CatalogReadOnlyAndIdempotent ==
  /\ catalog = CVE_DATABASE
  /\ (cveCall.done /\ session.previous.done) => cveCall = session.previous
  /\ (cveCall.done /\ ~cveCall.thrown /\ session.all.done) =>
       /\ ~session.all.thrown
       /\ session.all.results = SelectSeq(<<cveCall.result>>, HasMatches)

\* Two matching calls around a statistics call, on a project with matches.
C16_Witness ==
  /\ cveCall.done /\ session.previous.done /\ session.stats.done
  /\ Len(cveCall.result.affected) > 0

\* The day of an ISO date, as a number that grows with time.
DateValue(d) ==
  DecimalValue(SubSeq(d, 1, 4)) * 10000
    + DecimalValue(SubSeq(d, 6, 7)) * 100
    + DecimalValue(SubSeq(d, 9, 10))

\* C20: getCveDatabaseStats reports total equal to the number of catalog
\* records, records sharing an id counted separately; packages equal to the
\* set of distinct package names of the catalog, no name repeated; and
\* lastUpdate equal to the latest disclosure date over all records.
C20_StatsDescribeCatalog ==
  session.stats.done =>
    LET st == session.stats
    IN  /\ st.total = Len(catalog)
        /\ {st.packages[k] : k \in 1..Len(st.packages)}
             = {catalog[i].package : i \in 1..Len(catalog)}
        /\ \A k, l \in 1..Len(st.packages) :
             st.packages[k] = st.packages[l] => k = l
        /\ \E i \in 1..Len(catalog) : st.lastUpdate = catalog[i].date
        /\ \A i \in 1..Len(catalog) :
             DateValue(catalog[i].date) <= DateValue(st.lastUpdate)

\* The statistics of the catalog: more records than advisory ids, fewer
\* packages than records, and a latest date that is not the last record's.
C20_Witness ==
  /\ session.stats.done
  /\ session.stats.total
       > Cardinality({catalog[i].id : i \in 1..Len(catalog)})
  /\ Len(session.stats.packages) < session.stats.total
  /\ session.stats.lastUpdate # catalog[Len(catalog)].date

\* ------------------------------------------- claims on one auditProject call

ZeroCounts(r) ==
  /\ r.vulnerabilities = <<>>
  /\ r.totalVulnerabilities = 0
  /\ r.critical = 0 /\ r.high = 0 /\ r.moderate = 0 /\ r.low = 0

Supported(t) == t.language \in SupportedLanguages

\* C11: for each of the five adapters, when the binary that the adapter's
\* audit command needs is not installed, the adapter returns an error
\* result (non-null error, zero vulnerabilities) at once and the audit
\* subprocess is never spawned.
C11_ToolMissingIsImmediateError ==
  (auditCall.done /\ Supported(target)
     /\ ToolMissing(target.language, target.env)) =>
    /\ ~auditCall.thrown
    /\ auditCall.result.error # Null
    /\ auditCall.result.vulnerabilities = <<>>
    /\ ~RanAuditCommand(auditCall.log)

\* The subprocess was started, was killed on the deadline and had written
\* nothing.
TimedOutSilently(t) ==
  /\ ~ToolMissing(t.language, t.env)
  /\ t.env.exec.exit = "timeout"
  /\ t.env.exec.stdout.kind = "empty"
  /\ t.env.exec.stderr.kind = "empty"

\* C12: for every adapter, when the audit subprocess exceeds its deadline
\* and has produced no output, the result carries a non-null error.
C12_SilentTimeoutIsReported ==
  (auditCall.done /\ Supported(target) /\ TimedOutSilently(target)) =>
    /\ ~auditCall.thrown
    /\ auditCall.result.error # Null

\* The same directory, with the tool exiting with 0 after the same stdout.
ExitsZero(env) ==
  [env EXCEPT !.exec = [exit |-> "zero", stdout |-> env.exec.stdout,
                        stderr |-> [env.exec.stdout EXCEPT !.kind = "empty"]]]

FailedWithStdout(t) ==
  /\ ~ToolMissing(t.language, t.env)
  /\ t.env.exec.exit \in {"nonzero", "timeout"}
  /\ t.env.exec.stdout.kind # "empty"

\* C13: the exit code is not authoritative: for every adapter, when the
\* subprocess exits non-zero or is killed on timeout with non-empty stdout
\* S, the result is the one of an exit with 0 and stdout S, so the findings
\* of a well-formed S are reported with a null error.
C13_ExitCodeNotAuthoritative ==
  (auditCall.done /\ Supported(target) /\ FailedWithStdout(target)) =>
    /\ ~auditCall.thrown
    /\ auditCall.result
         = auditProject(ExitsZero(target.env), target.name, target.language).result
    /\ CleanRun(target.language, ExitsZero(target.env)) =>
         auditCall.result.error = Null

\* A tool that exited non-zero after printing findings, which are reported.
C13_Witness ==
  /\ auditCall.done /\ Supported(target) /\ FailedWithStdout(target)
  /\ target.env.exec.exit = "nonzero"
  /\ Len(auditCall.result.vulnerabilities) > 0
  /\ auditCall.result.error = Null

\* What cmd captured is not a JSON document of the schema the adapter reads:
\* text that is not JSON, the document null, or an entry that is null.
MalformedCapture(t) ==
  LET raw == cmd(t.env.exec)
  IN  /\ ~ToolMissing(t.language, t.env)
      /\ ~NoRaw(raw)
      /\ \/ raw.text.kind \in {"garbage", "jsonNull"}
         \/ /\ t.language = "node" /\ raw.text.kind = "json"
            /\ \E i \in 1..Len(raw.text.doc.vulnerabilities.entries) :
                 raw.text.doc.vulnerabilities.entries[i].info.isNull

\* C14: for node, rust, python and php, when the captured output of the
\* tool is non-empty and is not valid JSON of the expected schema, the
\* result has a non-null error, an empty list and all counts zero.
C14_MalformedOutputIsParseFailure ==
  (auditCall.done /\ target.language \in {"node", "rust", "python", "php"}
     /\ MalformedCapture(target)) =>
    /\ ~auditCall.thrown
    /\ auditCall.result.error # Null
    /\ ZeroCounts(auditCall.result)

\* The tool is installed, finds no manifest, prints a diagnostic on stderr
\* and nothing on stdout, and exits non-zero.
NoManifest(t) ==
  /\ ~ToolMissing(t.language, t.env)
  /\ t.env.exec.exit = "nonzero"
  /\ t.env.exec.stdout.kind = "empty"
  /\ t.env.exec.stderr.kind # "empty"

\* C15: for every adapter, when the project directory has no manifest of
\* the ecosystem, so that the tool fails and prints only a diagnostic, the
\* result has zero vulnerabilities and a null error.
C15_NoManifestIsCleanResult ==
  (auditCall.done /\ Supported(target) /\ NoManifest(target)) =>
    /\ ~auditCall.thrown
    /\ ZeroCounts(auditCall.result)
    /\ auditCall.result.error = Null


\* --------------------------------------------- claims on the node adapter

\* The audit command of a node project printed a JSON document whose
\* entries are all objects.
NodeJsonOutput(t) ==
  LET raw == cmd(t.env.exec)
  IN  /\ t.language = "node"
      /\ ~NoRaw(raw)
      /\ raw.text.kind = "json"
      /\ \A i \in 1..Len(raw.text.doc.vulnerabilities.entries) :
           ~raw.text.doc.vulnerabilities.entries[i].info.isNull

NodeDocOf(t) == cmd(t.env.exec).text.doc

CountKeys == {"total", "critical", "high", "moderate", "low"}

\* C21: in the node adapter, when the audit output carries both a
\* vulnerabilities map and the metadata counts, the result's total,
\* critical, high, moderate and low equal the metadata counts, a count of 0
\* included; when the metadata counts are absent they equal the counts
\* recomputed from the list of the result.
C21_MetadataCountsPreferred ==
  (auditCall.done /\ NodeJsonOutput(target)) =>
    LET d == NodeDocOf(target)
        r == auditCall.result
    IN  /\ (d.vulnerabilities.present /\ DOMAIN d.metadata = CountKeys) =>
             /\ r.totalVulnerabilities = d.metadata["total"]
             /\ \A sev \in Severities : CountField(r, sev) = d.metadata[sev]
        /\ (DOMAIN d.metadata = {}) =>
             /\ r.totalVulnerabilities = Len(r.vulnerabilities)
             /\ \A sev \in Severities :
                  CountField(r, sev) = CountSeverity(r.vulnerabilities, sev)

\* C22: for a node project, whichever package manager is detected from the
\* lock files, every entry of the vulnerabilities map of the audit output
\* yields exactly one Vulnerability of the result, whose package is the
\* entry's key, so that a project whose tool reports a vulnerability is
\* never returned as clean.
C22_EveryEntryYieldsOneVulnerability ==
  (auditCall.done /\ NodeJsonOutput(target)) =>
    LET d       == NodeDocOf(target)
        entries == IF d.vulnerabilities.present
                     THEN d.vulnerabilities.entries ELSE <<>>
        r       == auditCall.result
    IN  /\ ~auditCall.thrown
        /\ Len(r.vulnerabilities) = Len(entries)
        /\ \A i \in 1..Len(entries) : r.vulnerabilities[i].package = entries[i].pkg
        /\ Len(entries) > 0 => Kept(r)

\* ------------------------------------------- claims on the other adapters

\* The severity that the fixed thresholds give to a score held in tenths.
ThresholdSeverity(tenths) ==
  IF tenths >= 90 THEN "critical"
  ELSE IF tenths >= 70 THEN "high"
  ELSE IF tenths >= 40 THEN "moderate"
  ELSE "low"

\* The rust adapter read a JSON document with a list of advisories.
RustJsonOutput(t) ==
  LET raw == cmd(t.env.exec)
  IN  /\ t.language = "rust" /\ ~ToolMissing("rust", t.env)
      /\ ~NoRaw(raw) /\ raw.text.kind = "json"

RustItemsOf(t) ==
  LET d == cmd(t.env.exec).text.doc
  IN  IF d.list.present THEN d.list.items ELSE <<>>

\* C23: the rust adapter maps every present numeric CVSS score s to a
\* severity by the thresholds s >= 9 critical, 7 <= s < 9 high,
\* 4 <= s < 7 moderate, s < 4 low, s = 0 included, and yields moderate
\* outside 4 <= s < 7 only when the score is missing.
C23_RustSeverityByThresholds ==
  (auditCall.done /\ RustJsonOutput(target)) =>
    LET items == RustItemsOf(target)
        vulns == auditCall.result.vulnerabilities
    IN  /\ Len(vulns) = Len(items)
        /\ \A i \in 1..Len(items) :
             LET cvss == IF items[i].advisory.present
                           THEN items[i].advisory.cvss ELSE AbsentCvss
             IN  /\ cvss.kind = "number" =>
                      vulns[i].severity = ThresholdSeverity(cvss.tenths)
                 /\ cvss.kind = "absent" => vulns[i].severity = "moderate"

\* The python adapter read a JSON document.
PythonJsonOutput(t) ==
  LET raw == cmd(t.env.exec)
  IN  /\ t.language = "python" /\ ~ToolMissing("python", t.env)
      /\ ~NoRaw(raw) /\ raw.text.kind = "json"

\* The entries of the document, under either shape.
PythonEntriesOf(t) ==
  LET d == cmd(t.env.exec).text.doc
  IN  IF d.shape \in {"array", "dependencies"} THEN d.items ELSE <<>>

\* The positions <<entry, vulnerability>> of the document, and the place of
\* a position in their order.
PythonPositions(deps) ==
  UNION {{<<i, j>> : j \in 1..(IF deps[i].vulns.present
                                  THEN Len(deps[i].vulns.items) ELSE 0)} :
           i \in 1..Len(deps)}

PythonRank(deps, p) ==
  Cardinality({q \in PythonPositions(deps) :
                 q[1] < p[1] \/ (q[1] = p[1] /\ q[2] <= p[2])})

\* C24: the python adapter produces the same list whether the output is a
\* top-level array of entries or an object {dependencies: entries}: the
\* list depends on the entries alone, entries with an empty or missing
\* vulnerability sub-list contribute nothing, and each vulnerability kept
\* has severity high exactly when it has a fix version, moderate otherwise.
C24_PythonShapesAndSeverity ==
  (auditCall.done /\ PythonJsonOutput(target)) =>
    LET deps  == PythonEntriesOf(target)
        vulns == auditCall.result.vulnerabilities
    IN  /\ ~auditCall.thrown /\ auditCall.result.error = Null
        /\ Len(vulns) = Cardinality(PythonPositions(deps))
        /\ \A p \in PythonPositions(deps) :
             LET v == deps[p[1]].vulns.items[p[2]]
                 k == PythonRank(deps, p)
             IN  /\ vulns[k].package = deps[p[1]].name
                 /\ vulns[k].title = IF v.id # "" THEN v.id ELSE "Vulnerability"
                 /\ vulns[k].severity \in {"high", "moderate"}
                 /\ vulns[k].severity = "high" <=> Len(v.fix_versions) > 0

\* The {dependencies: entries} shape with one entry of two vulnerabilities,
\* one with a fix version and one without, one entry with an empty sub-list
\* and one without a sub-list.
C24_Witness ==
  /\ auditCall.done /\ PythonJsonOutput(target)
  /\ cmd(target.env.exec).text.doc.shape = "dependencies"
  /\ \E i \in 1..Len(PythonEntriesOf(target)) :
       ~PythonEntriesOf(target)[i].vulns.present
  /\ \E i \in 1..Len(PythonEntriesOf(target)) :
       /\ PythonEntriesOf(target)[i].vulns.present
       /\ PythonEntriesOf(target)[i].vulns.items = <<>>
  /\ Len(auditCall.result.vulnerabilities) = 2
  /\ auditCall.result.vulnerabilities[1].severity = "high"
  /\ auditCall.result.vulnerabilities[2].severity = "moderate"

\* govulncheck ran and printed lines.
GoLinesOutput(t) ==
  LET raw == cmd(t.env.exec)
  IN  /\ t.language = "go" /\ ~ToolMissing("go", t.env)
      /\ ~NoRaw(raw) /\ raw.text.kind = "lines"

GoLinesOf(t) == cmd(t.env.exec).text.doc

\* The lines that are JSON and carry a vulnerability object.
GoFindingLines(lines) ==
  {i \in 1..Len(lines) : lines[i].valid /\ lines[i].hasVulnerability}

\* C25: the go adapter reads one JSON object per line: a line that fails to
\* parse is skipped, never turns the result into an error and never drops
\* the findings of other lines; the list of the result is, in line order,
\* one entry of severity high for each valid line that carries a
\* vulnerability object.
C25_GoLinesParsedIndependently ==
  (auditCall.done /\ GoLinesOutput(target)) =>
    LET lines == GoLinesOf(target)
        vulns == auditCall.result.vulnerabilities
    IN  /\ ~auditCall.thrown /\ auditCall.result.error = Null
        /\ Len(vulns) = Cardinality(GoFindingLines(lines))
        /\ \A i \in GoFindingLines(lines) :
             LET k == Cardinality({j \in GoFindingLines(lines) : j <= i})
             IN  /\ vulns[k].severity = "high"
                 /\ vulns[k].title = lines[i].vulnerability.id
                 /\ vulns[k].package = lines[i].vulnerability.module

\* A line that is not JSON stands between two findings, and both are
\* reported in the order of their lines.
C25_Witness ==
  /\ auditCall.done /\ GoLinesOutput(target)
  /\ \E i, j, k \in 1..Len(GoLinesOf(target)) :
       /\ i < j /\ j < k
       /\ i \in GoFindingLines(GoLinesOf(target))
       /\ ~GoLinesOf(target)[j].valid
       /\ k \in GoFindingLines(GoLinesOf(target))
       /\ GoLinesOf(target)[i].vulnerability.id
            # GoLinesOf(target)[k].vulnerability.id
  /\ Len(auditCall.result.vulnerabilities) = 2
  /\ auditCall.result.vulnerabilities[1].title = "GO-2023-1571"
  /\ auditCall.result.vulnerabilities[2].title = "GO-2024-2687"

\* C26: for every AuditResult for which an audit subprocess was run,
\* whatever the outcome (parsed, parse failure, no output), the
\* auditCommand field is the exact command string that was passed to the
\* subprocess.
C26_AuditCommandIsCommandRun ==
  (auditCall.done /\ ~auditCall.thrown /\ RanAuditCommand(auditCall.log)) =>
    /\ auditCall.log[Len(auditCall.log)] \in AuditCommands
    /\ auditCall.result.auditCommand = auditCall.log[Len(auditCall.log)]

\* ------------------------------------------- claims on every audit result

Taxonomy == {"critical", "high", "moderate", "low", "info"}

\* C27: every Vulnerability of every AuditResult produced by any adapter has
\* a severity that is one of critical, high, moderate, low and info,
\* whatever severity value the output of the tool carries.
C27_SeverityInTaxonomy ==
  (auditCall.done /\ ~auditCall.thrown) =>
    \A i \in 1..Len(auditCall.result.vulnerabilities) :
      auditCall.result.vulnerabilities[i].severity \in Taxonomy

\* ------------------------------------ claims on the installed versions

RangeOperatorChars == {"^", "~", ">", "=", "<"}

\* stripped is spec without its leading range operators.
IsStrippedOf(stripped, spec) ==
  \E k \in 0..Len(spec) :
    /\ \A i \in 1..k : spec[i] \in RangeOperatorChars
    /\ k < Len(spec) => spec[k + 1] \notin RangeOperatorChars
    /\ stripped = SubSeq(spec, k + 1, Len(spec))

\* The manifest of the installed package can be read and has a version.
ManifestProvidesVersion(m) == m.file = "ok" /\ m.version # Undefined

\* C28: for every package declared in the project's dependencies or
\* devDependencies, the resolved installed version is the version recorded
\* in the installed package's own manifest when that manifest provides
\* one, and otherwise (manifest absent, unreadable or without a version)
\* the declared specifier with its leading range operators stripped.
C28_InstalledVersionResolution ==
  (cveCall.done /\ fs.pkgJson = "ok") =>
    /\ DOMAIN cveCall.installed = DOMAIN AllDeps(fs)
    /\ \A n \in DOMAIN AllDeps(fs) :
         IF ManifestProvidesVersion(fs.nm[n])
           THEN cveCall.installed[n] = fs.nm[n].version
           ELSE /\ cveCall.installed[n].kind = "string"
                /\ IsStrippedOf(cveCall.installed[n].s, AllDeps(fs)[n])

\* C29: checkAllProjectCves returns normally for every list of projects: a
\* project whose manifest or installed-package metadata is malformed
\* (invalid JSON, missing version, version that is not a string) raises no
\* exception and does not keep the remaining projects from being matched.
C29_CheckAllReturnsNormally ==
  session.all.done =>
    /\ ~session.all.thrown
    /\ \A i \in 1..Len(session.all.results) :
         session.all.results[i].project \in {"app", "empty"}

\* C30: for every AuditResult returned by auditProject,
\* totalVulnerabilities equals the length of the result's vulnerabilities
\* list, so that the filter of auditAllProjects keeps a result without
\* error exactly when its list is not empty.
C30_TotalIsListLength ==
  (auditCall.done /\ ~auditCall.thrown) =>
    /\ auditCall.result.totalVulnerabilities
         = Len(auditCall.result.vulnerabilities)
    /\ auditCall.result.error = Null =>
         (Kept(auditCall.result) <=> auditCall.result.vulnerabilities # <<>>)

=========================================================================
